---- MODULE Spec2Model ----
(***************************************************************************)
(* Real-time data pipeline of HT_API: the fetch adapters with their        *)
(* candle-completion detector (src/src/fetchers, src/src/processing) and   *)
(* the minute-aligned polling loop with its retry ladder                   *)
(* (src/src/core/polling.py).                                              *)
(*                                                                         *)
(* Time is counted in tenths of a second.  Vendor timestamps, which the    *)
(* code holds as "HHMMSS" strings and compares as strings, are the numbers *)
(* HHMMSS: for fixed-width digit strings the two orders agree.             *)
(***************************************************************************)
EXTENDS Integers, Sequences, FiniteSets, TLC

VARIABLES
    now,              \* wall clock, tenths of a second since midnight of day 0
    fetchers,         \* the adapters built from the subscription list
    cursor,           \* CandleProcessor._last_processed_time, per candle adapter
    lastFetchMinute,  \* OptionChainFetcher._last_fetch_minute
    queue,            \* the shared asyncio.Queue
    lastEmitted,      \* history: vendor timestamp of the last bar each adapter enqueued
    last,             \* history: the most recent fetch_data call and what it did
    optionLog,        \* history: requests and snapshots of the option adapter in its latest minute
    issuedAt,         \* history: for each record waiting in the queue, when the fetch that put it was issued
    ticks,            \* minutes the free-running clock of SpecFetch has advanced
    pc,               \* PollingManager.start_polling: position of the coroutine
    running,          \* PollingManager._running
    passList,         \* fetchers_to_process of the pass in progress
    idx,              \* position of the for loop of _execute_fetch_cycle
    results,          \* results of the pass in progress
    attempt,          \* i of "for i in range(10)"; None during the primary pass
    cycles,           \* loop iterations begun
    calls,            \* history: fetch_data calls per adapter in this cycle
    succeeded,        \* history: adapters whose fetch_data returned a record in this cycle
    enqCycle,         \* history: records each adapter enqueued in this cycle
    primaryMinutes,   \* history: minute index of the last two primary passes
    troubled,         \* history: adapters whose fetch_data has failed (raised or returned empty)
    slowCalls,        \* history: fetch_data calls that ran into the client timeout
    batch_size,       \* DataWriter.batch_size
    batch_queue,      \* DataWriter.batch_queue
    created_tables,   \* DataWriter.created_tables
    wpc,              \* start_batch_writer: position of the coroutine
    batch,            \* start_batch_writer: the batch being collected
    deadline,         \* start_batch_writer: the deadline task of the batch
    firstAt,          \* history: when the first record of the batch was taken
    flushed,          \* history: the storage operations of the latest _write_batch
    createLog,        \* history: every create_dynamic_table invocation and its outcome
    errorsLogged,     \* history: logging.error calls of the writer
    accepted,         \* history: records handed to save_candle_data, calls of save_option_matrices
    num_strikes,      \* OptionMatrixProcessor._num_strikes
    matrices,         \* OptionMatrixProcessor.matrices
    chain,            \* history: the snapshot of the latest update call
    updates,          \* history: update calls made
    listed,           \* the strikes the option board lists
    recent_data,      \* the stored minute bars of the strategy's symbol, day by day
    gen,              \* SignalGenerator: its settings
    signal,           \* history: what the latest get_latest_signal call returned
    signalRows,       \* the signal table: rows by bar timestamp
    arrivals,         \* history: the bars stored by save_data, new or revised
    checked,          \* history: the number of bars _check_signal last read
    feedCalls         \* KISDataFeed.start_feed: where each caller's latest call stands

fetchVars == <<cursor, lastFetchMinute, queue, lastEmitted, last, optionLog, issuedAt>>
pollVars == <<pc, running, passList, idx, results, attempt, cycles,
              calls, succeeded, enqCycle, primaryMinutes, troubled, slowCalls>>
writerVars == <<batch_size, batch_queue, created_tables, wpc, batch, deadline, firstAt,
                flushed, createLog, errorsLogged, accepted>>
matrixVars == <<num_strikes, matrices, chain, updates, listed>>
signalVars == <<recent_data, gen, signal, signalRows, arrivals, checked>>
feedVars == <<feedCalls>>
vars == <<now, fetchers, ticks, cursor, lastFetchMinute, queue, lastEmitted, last, optionLog,
          issuedAt,
          pc, running, passList, idx, results, attempt, cycles,
          calls, succeeded, enqCycle, primaryMinutes, troubled, slowCalls,
          batch_size, batch_queue, created_tables, wpc, batch, deadline, firstAt,
          flushed, createLog, errorsLogged, accepted,
          num_strikes, matrices, chain, updates, listed,
          recent_data, gen, signal, signalRows, arrivals, checked, feedCalls>>

---------------------------------------------------------------------------
\* Bounds of the model.
MaxBars == 2      \* raw bars in one vendor response
MaxLag == 1       \* how many minutes behind the wall clock a raw bar may be
MaxQueue == 2     \* records waiting in the shared queue
MaxTicks == 3     \* minutes the clock of SpecFetch advances
MaxCycles == 2    \* iterations of the polling loop
MaxSlowCalls == 1 \* fetches of a run that wait out the client timeout
MaxGarbled == 1   \* raw bars of one response whose price or volume fields are not numbers

---------------------------------------------------------------------------
\* Time.
Second == 10
Minute == 600
Day == 864000

None == -1

Clock(h, m, s) == ((h * 60 + m) * 60 + s) * Second

TimeOfDay(t) == t % Day

\* strftime("%H%M")
HHMM(t) == LET m == TimeOfDay(t) \div Minute IN (m \div 60) * 100 + (m % 60)

\* datetime.replace(second=0, microsecond=0)
FloorMinute(t) == (t \div Minute) * Minute

MARKET_HOURS_STOCK_START == Clock(9, 0, 0)
MARKET_HOURS_STOCK_END == Clock(15, 32, 0)
MARKET_HOURS_DERIV_START == Clock(8, 45, 0)
MARKET_HOURS_DERIV_END == Clock(15, 47, 0)

CandleAdapters == {"stock", "deriv"}
Adapters == {"stock", "deriv", "option"}

market_type(a) == IF a = "stock" THEN "STOCK" ELSE "DERIVATIVES"

is_market_open_IgnoresClose(mt, t) ==
    IF mt = "STOCK"
    THEN MARKET_HOURS_STOCK_START <= TimeOfDay(t)
    ELSE IF mt = "DERIVATIVES"
    THEN MARKET_HOURS_DERIV_START <= TimeOfDay(t)
    ELSE FALSE

is_market_open(mt, t) ==
    IF mt = "STOCK"
    THEN MARKET_HOURS_STOCK_START <= TimeOfDay(t) /\ TimeOfDay(t) <= MARKET_HOURS_STOCK_END
    ELSE IF mt = "DERIVATIVES"
    THEN MARKET_HOURS_DERIV_START <= TimeOfDay(t) /\ TimeOfDay(t) <= MARKET_HOURS_DERIV_END
    ELSE FALSE

is_trading_hours(a, t) == is_market_open(market_type(a), t)

---------------------------------------------------------------------------
\* What the vendor can answer at time t.
RECURSIVE NewestFirst(_)
NewestFirst(S) ==
    IF S = {} THEN <<>>
    ELSE LET mx == CHOOSE x \in S : \A y \in S : y <= x
         IN <<mx>> \o NewestFirst(S \ {mx})

\* the "HHMMSS" stamp of the bar of minute-of-day m
BarTime(m) == ((m \div 60) * 100 + (m % 60)) * 100

RecentMinutes(t) == {(TimeOfDay(t) \div Minute) - k : k \in 0..MaxLag}

\* ohlcv tells whether float()/int() accept the bar's price and volume fields
BarLists(t) ==
    UNION {{[i \in 1..Cardinality(S) |->
                [stck_cntg_hour |-> BarTime(NewestFirst(S)[i]),
                 ohlcv |-> IF i \in G THEN "garbled" ELSE "numeric"]] :
              G \in {X \in SUBSET (1..Cardinality(S)) : Cardinality(X) <= MaxGarbled}} :
           S \in {X \in SUBSET RecentMinutes(t) : Cardinality(X) <= MaxBars}}

Failures ==
    {[auth |-> "fail", http |-> "none", rt_cd |-> "", output1 |-> <<>>, output2 |-> <<>>],
     [auth |-> "ok", http |-> "timeout", rt_cd |-> "", output1 |-> <<>>, output2 |-> <<>>],
     [auth |-> "ok", http |-> "500", rt_cd |-> "", output1 |-> <<>>, output2 |-> <<>>],
     [auth |-> "ok", http |-> "200", rt_cd |-> "1", output1 |-> <<>>, output2 |-> <<>>]}

CandleOutcomes(t) ==
    Failures \cup
    {[auth |-> "ok", http |-> "200", rt_cd |-> "0", output1 |-> <<>>, output2 |-> b] :
        b \in BarLists(t)}

Quotes == {<<>>, <<"quote">>}

OptionOutcomes ==
    Failures \cup
    {[auth |-> "ok", http |-> "200", rt_cd |-> "0", output1 |-> c, output2 |-> p] :
        c \in Quotes, p \in Quotes}

Outcomes(a, t) == IF a = "option" THEN OptionOutcomes ELSE CandleOutcomes(t)

---------------------------------------------------------------------------
\* The candle-completion detector.
NoCandle == [stck_cntg_hour |-> None, ohlcv |-> "none"]

StartsWith(stamp, hhmm) == stamp \div 100 = hhmm

StockSelectCompletedCandle(candles, current_time) ==
    IF Len(candles) < 1 THEN NoCandle
    ELSE IF StartsWith(current_time, 1530) THEN candles[1]
    ELSE IF Len(candles) > 1 THEN candles[2] ELSE candles[1]

DerivSelectCompletedCandle_KeepsFreshest(candles, current_time) ==
    IF Len(candles) < 1 THEN NoCandle
    ELSE candles[1]

DerivSelectCompletedCandle(candles, current_time) ==
    IF Len(candles) < 1 THEN NoCandle
    ELSE IF StartsWith(current_time, 1545) THEN candles[1]
    ELSE IF Len(candles) > 1 THEN candles[2] ELSE candles[1]

\* CandleData.to_dict() of the converted bar; ohlcv_of names the raw bar whose
\* prices and volume the record carries.
StockProcessCandle(candle, t) ==
    [type |-> "s_candle", symbol |-> "stock", ohlcv_of |-> candle.stck_cntg_hour,
     timestamp |-> IF HHMM(FloorMinute(t)) # 1530 THEN FloorMinute(t) + Minute
                   ELSE FloorMinute(t)]

DerivProcessCandle(candle, t) ==
    [type |-> "d_candle", symbol |-> "deriv", ohlcv_of |-> candle.stck_cntg_hour,
     timestamp |-> FloorMinute(t)]

process_func(a, candle, t) ==
    IF a = "stock" THEN StockProcessCandle(candle, t) ELSE DerivProcessCandle(candle, t)

\* int(candle.get("stck_oprc", 0)), float(candle.get("futs_oprc", 0)), ...:
\* a field that is no number raises ValueError
Converts(candle) == candle.ohlcv = "numeric"

\* What one fetch_data call returns and leaves behind.
Ret(result, cur, enq, tok, req, sel) ==
    [result |-> result, cursor |-> cur, enq |-> enq, tok |-> tok, req |-> req, sel |-> sel]

process_candle_data_SkipsFirstRun(a, cur, current_time, completed_candle, t) ==
    IF current_time = None \/ completed_candle = NoCandle
    THEN Ret("empty", cur, <<>>, TRUE, TRUE, completed_candle)
    ELSE IF cur = None
    THEN Ret("empty", current_time, <<>>, TRUE, TRUE, completed_candle)
    ELSE IF cur >= current_time
    THEN Ret("empty", cur, <<>>, TRUE, TRUE, completed_candle)
    ELSE IF ~Converts(completed_candle)
    THEN Ret("raise", current_time, <<>>, TRUE, TRUE, completed_candle)
    ELSE Ret("record", current_time, <<process_func(a, completed_candle, t)>>,
             TRUE, TRUE, completed_candle)

process_candle_data(a, cur, current_time, completed_candle, t) ==
    IF current_time = None \/ completed_candle = NoCandle
    THEN Ret("empty", cur, <<>>, TRUE, TRUE, completed_candle)
    ELSE IF cur # None /\ cur >= current_time
    THEN Ret("empty", cur, <<>>, TRUE, TRUE, completed_candle)
    ELSE IF ~Converts(completed_candle)
    THEN Ret("raise", current_time, <<>>, TRUE, TRUE, completed_candle)
    ELSE Ret("record", current_time, <<process_func(a, completed_candle, t)>>,
             TRUE, TRUE, completed_candle)

---------------------------------------------------------------------------
\* The adapters' fetch_data.
StockFetchData_SwallowsAuthFailure(cur, t, out) ==
    IF ~is_trading_hours("stock", t) THEN Ret("empty", cur, <<>>, FALSE, FALSE, NoCandle)
    ELSE IF out.auth # "ok" THEN Ret("empty", cur, <<>>, TRUE, FALSE, NoCandle)
    ELSE IF out.http # "200" THEN Ret("raise", cur, <<>>, TRUE, TRUE, NoCandle)
    ELSE IF out.rt_cd # "0" \/ out.output2 = <<>>
    THEN Ret("empty", cur, <<>>, TRUE, TRUE, NoCandle)
    ELSE LET candles == out.output2
             current_time == candles[1].stck_cntg_hour
             completed_candle == StockSelectCompletedCandle(candles, current_time)
         IN IF completed_candle = NoCandle
            THEN Ret("empty", cur, <<>>, TRUE, TRUE, NoCandle)
            ELSE process_candle_data("stock", cur, current_time, completed_candle, t)

StockFetchData(cur, t, out) ==
    IF ~is_trading_hours("stock", t) THEN Ret("empty", cur, <<>>, FALSE, FALSE, NoCandle)
    ELSE IF out.auth # "ok" THEN Ret("raise", cur, <<>>, TRUE, FALSE, NoCandle)
    ELSE IF out.http # "200" THEN Ret("raise", cur, <<>>, TRUE, TRUE, NoCandle)
    ELSE IF out.rt_cd # "0" \/ out.output2 = <<>>
    THEN Ret("empty", cur, <<>>, TRUE, TRUE, NoCandle)
    ELSE LET candles == out.output2
             current_time == candles[1].stck_cntg_hour
             completed_candle == StockSelectCompletedCandle(candles, current_time)
         IN IF completed_candle = NoCandle
            THEN Ret("empty", cur, <<>>, TRUE, TRUE, NoCandle)
            ELSE process_candle_data("stock", cur, current_time, completed_candle, t)

DerivFetchData_SwallowsHttpError(cur, t, out) ==
    IF ~is_trading_hours("deriv", t) THEN Ret("empty", cur, <<>>, FALSE, FALSE, NoCandle)
    ELSE IF out.auth # "ok" THEN Ret("raise", cur, <<>>, TRUE, FALSE, NoCandle)
    ELSE IF out.http # "200" \/ out.rt_cd # "0" \/ out.output2 = <<>>
    THEN Ret("empty", cur, <<>>, TRUE, TRUE, NoCandle)
    ELSE LET candles == out.output2
             current_time == candles[1].stck_cntg_hour
             completed_candle == DerivSelectCompletedCandle(candles, current_time)
         IN IF completed_candle = NoCandle
            THEN Ret("empty", cur, <<>>, TRUE, TRUE, NoCandle)
            ELSE process_candle_data("deriv", cur, completed_candle.stck_cntg_hour,
                                     completed_candle, t)

DerivFetchData(cur, t, out) ==
    IF ~is_trading_hours("deriv", t) THEN Ret("empty", cur, <<>>, FALSE, FALSE, NoCandle)
    ELSE IF out.auth # "ok" THEN Ret("raise", cur, <<>>, TRUE, FALSE, NoCandle)
    ELSE IF out.http # "200" THEN Ret("raise", cur, <<>>, TRUE, TRUE, NoCandle)
    ELSE IF out.rt_cd # "0" \/ out.output2 = <<>>
    THEN Ret("empty", cur, <<>>, TRUE, TRUE, NoCandle)
    ELSE LET candles == out.output2
             current_time == candles[1].stck_cntg_hour
             completed_candle == DerivSelectCompletedCandle(candles, current_time)
         IN IF completed_candle = NoCandle
            THEN Ret("empty", cur, <<>>, TRUE, TRUE, NoCandle)
            ELSE process_candle_data("deriv", cur, completed_candle.stck_cntg_hour,
                                     completed_candle, t)

OptionFetchData_NoRateLimit(lfm, t, out) ==
    IF ~is_trading_hours("option", t) THEN Ret("empty", lfm, <<>>, FALSE, FALSE, NoCandle)
    ELSE IF out.auth # "ok" THEN Ret("raise", HHMM(t), <<>>, TRUE, FALSE, NoCandle)
    ELSE IF out.http # "200" THEN Ret("raise", HHMM(t), <<>>, TRUE, TRUE, NoCandle)
    ELSE IF out.rt_cd # "0" THEN Ret("empty", HHMM(t), <<>>, TRUE, TRUE, NoCandle)
    ELSE IF out.output1 = <<>> /\ out.output2 = <<>>
    THEN Ret("empty", HHMM(t), <<>>, TRUE, TRUE, NoCandle)
    ELSE Ret("record", HHMM(t),
             <<[type |-> "option_chain", symbol |-> "option", ohlcv_of |-> None,
                timestamp |-> t]>>,
             TRUE, TRUE, NoCandle)

OptionFetchData(lfm, t, out) ==
    IF ~is_trading_hours("option", t) THEN Ret("empty", lfm, <<>>, FALSE, FALSE, NoCandle)
    ELSE IF lfm = HHMM(t) THEN Ret("empty", lfm, <<>>, FALSE, FALSE, NoCandle)
    ELSE IF out.auth # "ok" THEN Ret("raise", HHMM(t), <<>>, TRUE, FALSE, NoCandle)
    ELSE IF out.http # "200" THEN Ret("raise", HHMM(t), <<>>, TRUE, TRUE, NoCandle)
    ELSE IF out.rt_cd # "0" THEN Ret("empty", HHMM(t), <<>>, TRUE, TRUE, NoCandle)
    ELSE IF out.output1 = <<>> /\ out.output2 = <<>>
    THEN Ret("empty", HHMM(t), <<>>, TRUE, TRUE, NoCandle)
    ELSE Ret("record", HHMM(t),
             <<[type |-> "option_chain", symbol |-> "option", ohlcv_of |-> None,
                timestamp |-> t]>>,
             TRUE, TRUE, NoCandle)

fetch_data(a, t, out) ==
    IF a = "stock" THEN StockFetchData(cursor[a], t, out)
    ELSE IF a = "deriv" THEN DerivFetchData(cursor[a], t, out)
    ELSE OptionFetchData(lastFetchMinute, t, out)

\* asyncio.Queue: put_nowait appends on the right, get takes from the left.
queue_put_Front(q, items) == items \o q

queue_put(q, items) == q \o items

queue_get(q) == Tail(q)

\* The state a fetch_data call of adapter a leaves, given what it returned.
Fetched(a, t, out, r) ==
    /\ cursor' = IF a \in CandleAdapters THEN [cursor EXCEPT ![a] = r.cursor] ELSE cursor
    /\ lastFetchMinute' = IF a = "option" THEN r.cursor ELSE lastFetchMinute
    /\ queue' = queue_put(queue, r.enq)
    /\ issuedAt' = queue_put(issuedAt, [i \in 1..Len(r.enq) |-> t])
    /\ lastEmitted' = IF r.enq # <<>> /\ a \in CandleAdapters
                      THEN [lastEmitted EXCEPT ![a] = r.enq[1].ohlcv_of]
                      ELSE lastEmitted
    /\ optionLog' =
          IF a # "option" THEN optionLog
          ELSE LET m == t \div Minute
                   old == IF optionLog.minute = m THEN optionLog
                          ELSE [minute |-> m, reqs |-> 0, enqs |-> 0]
               IN [minute |-> m,
                   reqs |-> old.reqs + (IF r.req THEN 1 ELSE 0),
                   enqs |-> old.enqs + Len(r.enq)]

\* The record SpecFetch keeps of the call.
Observed(a, t, out, r) ==
    last' = [who |-> a, at |-> t, open |-> is_trading_hours(a, t), out |-> out,
                cur0 |-> IF a = "option" THEN lastFetchMinute ELSE cursor[a],
                r |-> r, flip |-> 1 - last.flip,
                afterCredentialFailure |->
                    (last.who = a /\ last.open /\ last.out.auth = "fail")]

---------------------------------------------------------------------------
\* SpecFetch: the adapters called at arbitrary times.
StartTimes == {Clock(8, 44, 30), Clock(15, 29, 30), Clock(15, 44, 30)}

NoCall == [who |-> "none", at |-> 0, open |-> FALSE, out |-> CHOOSE f \in Failures : f.auth = "fail",
           cur0 |-> None, r |-> Ret("empty", None, <<>>, FALSE, FALSE, NoCandle),
           flip |-> 0, afterCredentialFailure |-> FALSE]

\* C33: no record is lost or duplicated between save_candle_data and
\* _write_batch: under every interleaving of producers, the deadline timer and
\* the flush loop, a record arriving as the deadline fires and the pending get
\* is cancelled included, each enqueued record is in exactly one batch passed
\* to _write_batch, and the batches keep the enqueue order: the batches
\* written, the batch being collected and the records still waiting make up
\* the records handed in, in their order.
C33_NoRecordLostOrDuplicated ==
    flushed.written \o batch \o batch_queue = accepted.log

C33_Witness ==
    /\ batch_size = 2
    /\ Len(accepted.log) = 2
    /\ accepted.log[1] # accepted.log[2]
    /\ flushed.written = accepted.log
    /\ Len(flushed.batch) = 1
    /\ deadline.cancelled

---------------------------------------------------------------------------
\* The option matrix builder (src/src/processing/matrix_processor.py).
MaxNumStrikes == 2   \* largest num_strikes a builder is constructed with
MaxStrike == 3       \* strikes on the option board: 1..MaxStrike
MaxUpdates == 2      \* update calls in a run

\* pandas NaN, the value of a cell that was never set
NaN == None

\* the metrics DataProcessor tracks
TrackedMetrics ==
    <<"iv", "delta", "gamma", "theta", "vega", "price", "volume", "open_interest">>

\* getattr(option, metric, None)
Attr(o, metric) ==
    CASE metric = "iv" -> o.iv
      [] metric = "delta" -> o.delta
      [] metric = "gamma" -> o.gamma
      [] metric = "theta" -> o.theta
      [] metric = "vega" -> o.vega
      [] metric = "rho" -> o.rho
      [] metric = "price" -> o.price
      [] metric = "volume" -> o.volume
      [] metric = "open_interest" -> o.open_interest
      [] OTHER -> NaN

\* f"{side}_ITM{i}", f"{side}_ATM", f"{side}_OTM{i}"
Column(side, cls, i) == [side |-> side, cls |-> cls, i |-> i]

SideColumns(side, n) ==
    [j \in 1..n |-> Column(side, "ITM", n + 1 - j)]
    \o <<Column(side, "ATM", 0)>>
    \o [j \in 1..n |-> Column(side, "OTM", j)]

generate_columns(n) == SideColumns("C", n) \o SideColumns("P", n)

\* A DataFrame: its columns, the number of its rows and its last row.  Rows
\* before the last are never read or rewritten.
NoRow == [name |-> None, cells |-> <<>>]

create_matrices(metrics, n) ==
    [m \in {metrics[i] : i \in 1..Len(metrics)} |->
        [columns |-> generate_columns(n), rows |-> 0, last |-> NoRow]]

\* sorted(options, key=lambda o: o.strike_price, reverse=...)
RECURSIVE sorted_by_strike(_, _)
sorted_by_strike(options, reverse) ==
    IF options = <<>> THEN <<>>
    ELSE LET first == CHOOSE i \in 1..Len(options) :
                         \A j \in 1..Len(options) :
                            \/ (IF reverse
                                THEN options[i].strike_price > options[j].strike_price
                                ELSE options[i].strike_price < options[j].strike_price)
                            \/ (options[i].strike_price = options[j].strike_price /\ i <= j)
             rest == [k \in 1..(Len(options) - 1) |->
                         IF k < first THEN options[k] ELSE options[k + 1]]
         IN <<options[first]>> \o sorted_by_strike(rest, reverse)

WithClass(options, cls) == SelectSeq(options, LAMBDA o : o.atm_class = cls)

\* options[: n]
Slice(options, n) == SubSeq(options, 1, IF Len(options) < n THEN Len(options) ELSE n)

\* series[label] = value for the listed options, label by label
Assigned(series, side, cls, options, metric) ==
    [c \in DOMAIN series \cup {Column(side, cls, i) : i \in 1..Len(options)} |->
        IF \E i \in 1..Len(options) : c = Column(side, cls, i)
        THEN Attr(options[CHOOSE i \in 1..Len(options) : c = Column(side, cls, i)], metric)
        ELSE series[c]]

\* series[label] = value
SetCell(series, c, v) ==
    [x \in DOMAIN series \cup {c} |-> IF x = c THEN v ELSE series[x]]

fill_row_by_atm_class(series, options, side, metric, n) ==
    LET atm_options == WithClass(options, "ATM") IN
    IF atm_options = <<>> THEN series
    ELSE LET atm_option == atm_options[1]
             itm_options == sorted_by_strike(WithClass(options, "ITM"), side = "C")
             otm_options == sorted_by_strike(WithClass(options, "OTM"), side = "C")
             with_atm == SetCell(series, Column(side, "ATM", 0), Attr(atm_option, metric))
             with_itm == Assigned(with_atm, side, "ITM", Slice(itm_options, n), metric)
         IN Assigned(with_itm, side, "OTM", Slice(otm_options, n), metric)

RECURSIVE AsSeq(_)
AsSeq(S) == IF S = {} THEN <<>>
            ELSE LET x == CHOOSE y \in S : TRUE IN <<x>> \o AsSeq(S \ {x})

\* a concat that places the values by position after the rows already there
concat_Shifted(df, series, name) ==
    [columns |-> df.columns,
     rows |-> df.rows + 1,
     last |-> [name |-> name,
               cells |-> [c \in {df.columns[i] : i \in 1..Len(df.columns)} |->
                   LET j == CHOOSE i \in 1..Len(df.columns) : df.columns[i] = c
                       from == j + df.rows
                   IN IF from <= Len(df.columns) /\ df.columns[from] \in DOMAIN series
                      THEN series[df.columns[from]] ELSE NaN]]]

\* pd.concat([df, series.to_frame().T]): labels the frame lacks become new
\* columns, cells the series lacks are NaN
concat(df, series, name) ==
    LET columns == df.columns
                   \o AsSeq(DOMAIN series \ {df.columns[i] : i \in 1..Len(df.columns)})
    IN [columns |-> columns,
        rows |-> df.rows + 1,
        last |-> [name |-> name,
                  cells |-> [c \in {columns[i] : i \in 1..Len(columns)} |->
                                IF c \in DOMAIN series THEN series[c] ELSE NaN]]]

\* update without the check that both sides have an at-the-money quote
update_NoAtmCheck(ms, chain_data, n) ==
    IF chain_data.calls = <<>> /\ chain_data.puts = <<>> THEN ms
    ELSE [m \in DOMAIN ms |->
            concat(ms[m],
                   fill_row_by_atm_class(
                       fill_row_by_atm_class(<<>>, sorted_by_strike(chain_data.calls, FALSE),
                                             "C", m, n),
                       sorted_by_strike(chain_data.puts, FALSE), "P", m, n),
                   chain_data.timestamp)]

\* OptionMatrixProcessor.update
update(ms, chain_data, n) ==
    IF chain_data.calls = <<>> /\ chain_data.puts = <<>> THEN ms
    ELSE LET sorted_calls == sorted_by_strike(chain_data.calls, FALSE)
             sorted_puts == sorted_by_strike(chain_data.puts, FALSE)
         IN IF WithClass(sorted_calls, "ATM") = <<>> \/ WithClass(sorted_puts, "ATM") = <<>>
            THEN ms
            ELSE [m \in DOMAIN ms |->
                    concat(ms[m],
                           fill_row_by_atm_class(
                               fill_row_by_atm_class(<<>>, sorted_calls, "C", m, n),
                               sorted_puts, "P", m, n),
                           chain_data.timestamp)]

\* col[2:].lower()
OffsetKey(col) ==
    [cls |-> CASE col.cls = "ITM" -> "itm" [] col.cls = "ATM" -> "atm" [] col.cls = "OTM" -> "otm",
     i |-> col.i]

\* the entries of one side of the latest row: the cells that are not NaN
SideValues(df, side) ==
    LET cols == {c \in {df.columns[j] : j \in 1..Len(df.columns)} :
                    c.side = side /\ df.last.cells[c] # NaN}
    IN [k \in {OffsetKey(c) : c \in cols} |->
            df.last.cells[CHOOSE c \in cols : OffsetKey(c) = k]]

\* OptionMatrixProcessor.get_current_matrices
get_current_matrices(ms) ==
    IF ~(\E m \in DOMAIN ms : ms[m].rows > 0) THEN <<>>
    ELSE [m \in {x \in DOMAIN ms : ms[x].rows > 0} |->
            [c |-> SideValues(ms[m], "C"), p |-> SideValues(ms[m], "P")]]

NoChain == [timestamp |-> None, calls |-> <<>>, puts |-> <<>>]

\* DataProcessor.__init__ builds the pipeline's matrix builder with num_strikes=10
InitMatrixBuilder ==
    /\ num_strikes = 10
    /\ matrices = create_matrices(TrackedMetrics, num_strikes)
    /\ chain = NoChain
    /\ updates = 0
    /\ listed = {}

---------------------------------------------------------------------------
\* The band-breakout signal generator (src/src/strategies/dolpha1/signals.py).
\* A series is the stored bars of one symbol: its days in date order, each
\* [date, bars], bars a function from minute of the day to the bar of that
\* minute (the table's key is (timestamp, symbol)).  Prices are integers and
\* ratios are fixed-point numbers with Scale units to 1.  atr, a diagnostic
\* the classification never reads, is left out.
MinBars == 100             \* create_features: len(df) < 100
SessionOpenMinute == 526   \* 08:46, the origin of min_from_open
Scale == 1000

Abs(x) == IF x < 0 THEN -x ELSE x

Max2(a, b) == IF a < b THEN b ELSE a

Min2(a, b) == IF a < b THEN a ELSE b

Minutes(day) == DOMAIN day.bars

FirstMinute(day) == CHOOSE m \in Minutes(day) : \A x \in Minutes(day) : m <= x

LastMinute(day) == CHOOSE m \in Minutes(day) : \A x \in Minutes(day) : x <= m

\* len(df)
RECURSIVE NumBars(_)
NumBars(s) ==
    IF s = <<>> THEN 0
    ELSE Cardinality(Minutes(s[Len(s)])) + NumBars(SubSeq(s, 1, Len(s) - 1))

\* the rows of df after sort_values('timestamp'): <<day, minute>> pairs
RECURSIVE DayRows(_, _)
DayRows(d, ms) ==
    IF ms = {} THEN <<>>
    ELSE LET lo == CHOOSE m \in ms : \A x \in ms : m <= x
         IN <<(<<d, lo>>)>> \o DayRows(d, ms \ {lo})

RECURSIVE RowsFrom(_, _)
RowsFrom(s, d) ==
    IF d > Len(s) THEN <<>> ELSE DayRows(d, Minutes(s[d])) \o RowsFrom(s, d + 1)

Rows(s) == RowsFrom(s, 1)

\* df.groupby('day')['open'].transform('first')
base_open_price(s, d) == s[d].bars[FirstMinute(s[d])].open

\* (df['close'] / base_open_price - 1).abs()
move_open(s, d, m) ==
    (Abs(s[d].bars[m].close - base_open_price(s, d)) * Scale) \div base_open_price(s, d)

min_from_open(m) == m - SessionOpenMinute

min_periods(g) == Max2(g.rolling_move \div 2, 3)

RECURSIVE SumMoves(_, _, _)
SumMoves(s, m, W) ==
    IF W = {} THEN 0
    ELSE LET e == CHOOSE x \in W : TRUE IN move_open(s, e, m) + SumMoves(s, m, W \ {e})

\* the rows of an earlier day in the same min_from_open group
BucketDays(s, d, m) == {e \in 1..(d - 1) : m \in Minutes(s[e])}

\* a sigma_open that averages the group up to and including the row itself
rolling_mean_shifted_Unlagged(s, g, d, m) ==
    LET B == BucketDays(s, d, m) \cup {d}
        W == {e \in B : Cardinality({x \in B : x > e}) < g.rolling_move}
    IN IF Cardinality(W) >= min_periods(g)
       THEN SumMoves(s, m, W) \div Cardinality(W) ELSE NaN

\* x.rolling(window=rolling_move, min_periods=...).mean().shift(1) within the
\* group: the mean over the last rolling_move earlier rows of the group
rolling_mean_shifted(s, g, d, m) ==
    LET B == BucketDays(s, d, m)
        W == {e \in B : Cardinality({x \in B : x > e}) < g.rolling_move}
    IN IF Cardinality(W) >= min_periods(g)
       THEN SumMoves(s, m, W) \div Cardinality(W) ELSE NaN

\* a column of the frame: the sequence of its values, row by row
AsColumn(f) == SubSeq(f, 1, Len(f))

\* df.groupby('day')[...].ffill(): a NaN takes the latest value before it in
\* the same day
ffill(rows, col) ==
    AsColumn([i \in 1..Len(rows) |->
        IF col[i] # NaN THEN col[i]
        ELSE LET before == {j \in 1..i : col[j] # NaN /\ rows[j][1] = rows[i][1]}
             IN IF before = {} THEN NaN
                ELSE col[CHOOSE j \in before : \A k \in before : k <= j]])

\* .bfill() over the whole column: a NaN takes the next value after it
bfill(col) ==
    AsColumn([i \in 1..Len(col) |->
        IF col[i] # NaN THEN col[i]
        ELSE LET after == {j \in i..Len(col) : col[j] # NaN}
             IN IF after = {} THEN NaN
                ELSE col[CHOOSE j \in after : \A k \in after : j <= k]])

\* SignalGenerator._calculate_sigma_open: the sigma_open column
calculate_sigma_open(s, g) ==
    LET rows == Rows(s)
        raw == AsColumn([i \in 1..Len(rows) |->
                            rolling_mean_shifted(s, g, rows[i][1], rows[i][2])])
    IN bfill(ffill(rows, raw))

\* df['day'].map(df.groupby('day')['close'].last().shift(1).ffill())
prev_close_map(s, d) ==
    IF d = 1 THEN NaN ELSE s[d - 1].bars[LastMinute(s[d - 1])].close

\* pd.concat([...], axis=1).max(axis=1) and .min(axis=1) skip NaN
ub_base(s, d) ==
    IF prev_close_map(s, d) = NaN THEN base_open_price(s, d)
    ELSE Max2(base_open_price(s, d), prev_close_map(s, d))

lb_base(s, d) ==
    IF prev_close_map(s, d) = NaN THEN base_open_price(s, d)
    ELSE Min2(base_open_price(s, d), prev_close_map(s, d))

\* SignalGenerator._calculate_bands, in price x Scale
UB(s, g, d, sigma) ==
    IF sigma = NaN THEN NaN ELSE ub_base(s, d) * (Scale + g.band_multiplier * sigma)

\* a lower band laid above its anchor
LB_Above(s, g, d, sigma) ==
    IF sigma = NaN THEN NaN ELSE lb_base(s, d) * (Scale + g.band_multiplier * sigma)

LB(s, g, d, sigma) ==
    IF sigma = NaN THEN NaN ELSE lb_base(s, d) * (Scale - g.band_multiplier * sigma)

\* (high + low + close) x volume, three times the typical price x volume
tpv3(b) == (b.high + b.low + b.close) * b.volume

RECURSIVE CumTpv3(_, _)
CumTpv3(day, ms) ==
    IF ms = {} THEN 0
    ELSE LET m == CHOOSE x \in ms : TRUE IN tpv3(day.bars[m]) + CumTpv3(day, ms \ {m})

RECURSIVE CumVolume(_, _)
CumVolume(day, ms) ==
    IF ms = {} THEN 0
    ELSE LET m == CHOOSE x \in ms : TRUE IN day.bars[m].volume + CumVolume(day, ms \ {m})

\* SignalGenerator._calculate_vwap at one row: the day's cumulative typical
\* price x volume (three times it, to stay in integers) and cumulative volume
calculate_vwap(s, d, m) ==
    LET upto == {x \in Minutes(s[d]) : x <= m}
    IN [tpv3 |-> CumTpv3(s[d], upto), volume |-> CumVolume(s[d], upto)]

\* close > vwap and close < vwap; a vwap over no volume is NaN and compares false
AboveVwap(close, vwap) == vwap.volume > 0 /\ close * 3 * vwap.volume > vwap.tpv3

BelowVwap(close, vwap) == vwap.volume > 0 /\ close * 3 * vwap.volume < vwap.tpv3

\* current_time.minute % self.observe_interval_minutes == 0
is_observe_time(g, t) == ((TimeOfDay(t) \div Minute) % 60) % g.observe_interval_minutes = 0

\* the two early returns of get_latest_signal; reason is kept in parts so that
\* reason.startswith("insufficient_data") is computed on it
InsufficientData(reason) ==
    [monitor_signal |-> 0, trade_signal |-> 0, reason |-> reason,
     ub |-> None, lb |-> None, current_price |-> None, is_observe_time |-> FALSE]

\* a classification that passes the monitor signal on at every minute
Classified_AlwaysTrade(s, g, t, d, m, sigma) ==
    LET row == s[d].bars[m]
        ub == UB(s, g, d, sigma)
        lb == LB(s, g, d, sigma)
        vwap == calculate_vwap(s, d, m)
        up == row.close * Scale > ub /\ (~g.use_vwap \/ AboveVwap(row.close, vwap))
        down == ~(row.close * Scale > ub) /\ row.close * Scale < lb
                /\ (~g.use_vwap \/ BelowVwap(row.close, vwap))
        monitor_signal == IF up THEN 1 ELSE IF down THEN -1 ELSE 0
    IN [monitor_signal |-> monitor_signal,
        trade_signal |-> monitor_signal,
        reason |-> IF up THEN <<"band_cross_up">>
                   ELSE IF down THEN <<"band_cross_down">> ELSE <<"none">>,
        ub |-> ub, lb |-> lb, current_price |-> row.close,
        is_observe_time |-> is_observe_time(g, t),
        move_open |-> move_open(s, d, m), sigma_open |-> sigma,
        vwap |-> vwap, min_from_open |-> min_from_open(m)]

\* a classification that skips the VWAP confirmation
Classified_NoVwap(s, g, t, d, m, sigma) ==
    LET row == s[d].bars[m]
        ub == UB(s, g, d, sigma)
        lb == LB(s, g, d, sigma)
        vwap == calculate_vwap(s, d, m)
        up == row.close * Scale > ub
        down == ~(row.close * Scale > ub) /\ row.close * Scale < lb
        monitor_signal == IF up THEN 1 ELSE IF down THEN -1 ELSE 0
    IN [monitor_signal |-> monitor_signal,
        trade_signal |-> IF is_observe_time(g, t) THEN monitor_signal ELSE 0,
        reason |-> IF up THEN <<"band_cross_up">>
                   ELSE IF down THEN <<"band_cross_down">> ELSE <<"none">>,
        ub |-> ub, lb |-> lb, current_price |-> row.close,
        is_observe_time |-> is_observe_time(g, t),
        move_open |-> move_open(s, d, m), sigma_open |-> sigma,
        vwap |-> vwap, min_from_open |-> min_from_open(m)]

\* get_latest_signal from latest_row on: the classification of the row
Classified(s, g, t, d, m, sigma) ==
    LET row == s[d].bars[m]
        ub == UB(s, g, d, sigma)
        lb == LB(s, g, d, sigma)
        vwap == calculate_vwap(s, d, m)
        up == row.close * Scale > ub /\ (~g.use_vwap \/ AboveVwap(row.close, vwap))
        \* the elif: examined only when close > UB is false
        down == ~(row.close * Scale > ub) /\ row.close * Scale < lb
                /\ (~g.use_vwap \/ BelowVwap(row.close, vwap))
        monitor_signal == IF up THEN 1 ELSE IF down THEN -1 ELSE 0
    IN [monitor_signal |-> monitor_signal,
        trade_signal |-> IF is_observe_time(g, t) THEN monitor_signal ELSE 0,
        reason |-> IF up THEN <<"band_cross_up">>
                   ELSE IF down THEN <<"band_cross_down">> ELSE <<"none">>,
        ub |-> ub, lb |-> lb, current_price |-> row.close,
        is_observe_time |-> is_observe_time(g, t),
        move_open |-> move_open(s, d, m), sigma_open |-> sigma,
        vwap |-> vwap, min_from_open |-> min_from_open(m)]

\* create_features without the length check
enough_bars_Any(s) == TRUE

\* create_features: len(df) < 100 returns an empty frame
enough_bars(s) == NumBars(s) >= MinBars

\* SignalGenerator.get_latest_signal called at time t
get_latest_signal(s, g, t) ==
    IF ~enough_bars(s) THEN InsufficientData(<<"insufficient_data">>)
    ELSE LET rows == Rows(s)
             sigma == calculate_sigma_open(s, g)
             valid_rows == {i \in 1..Len(rows) : sigma[i] # NaN}
         IN IF valid_rows = {}
            THEN InsufficientData(<<"insufficient_data", "days", Len(s)>>)
            ELSE LET latest == CHOOSE i \in valid_rows : \A j \in valid_rows : j <= i
                 IN Classified(s, g, t, rows[latest][1], rows[latest][2], sigma[latest])

\* a test for the bare reason only
startswith_insufficient_data_Exact(reason) == reason = <<"insufficient_data">>

\* reason.startswith("insufficient_data")
startswith_insufficient_data(reason) == reason[1] = "insufficient_data"

\* history of the latest call: when, by whom, on how many bars, and its result
NoResult == [reason |-> <<"not called">>]

NoSignal == [at |-> None, by |-> "none", bars |-> 0, result |-> NoResult]

\* Dolpha1Strategy.__init__ defaults; no bar stored, no signal computed
DefaultGenerator ==
    [rolling_move |-> 5, band_multiplier |-> 1, use_vwap |-> TRUE,
     observe_interval_minutes |-> 5]

InitSignalIdle ==
    /\ recent_data = <<>>
    /\ gen = DefaultGenerator
    /\ signal = NoSignal
    /\ signalRows = <<>>
    /\ arrivals = <<>>
    /\ checked = None

\* DataWriter.__init__; the flush loop not yet started
NoDeadline == [at |-> None, cancelled |-> FALSE]

NoFlush == [ops |-> <<>>, raised |-> FALSE, batch |-> <<>>, first |-> None, at |-> None,
            written |-> <<>>]

InitWriter ==
    /\ batch_queue = <<>>
    /\ created_tables = {}
    /\ wpc = "top"
    /\ batch = <<>>
    /\ deadline = NoDeadline
    /\ firstAt = None
    /\ flushed = NoFlush
    /\ createLog = <<>>
    /\ errorsLogged = 0
    /\ accepted = [records |-> 0, matrices |-> 0, log |-> <<>>]

\* KISDataFeed (src/src/core/feed.py).
MaxCallers == 3   \* tasks that call start_feed of one KISDataFeed

Callers == 1..MaxCallers

InitFeedIdle == feedCalls = [c \in Callers |-> "none"]

InitFetchers ==
    /\ cursor = [a \in CandleAdapters |-> None]
    /\ lastFetchMinute = None
    /\ queue = <<>>
    /\ lastEmitted = [a \in CandleAdapters |-> None]
    /\ last = NoCall
    /\ optionLog = [minute |-> None, reqs |-> 0, enqs |-> 0]
    /\ issuedAt = <<>>

InitPollIdle ==
    /\ pc = "idle"
    /\ running = FALSE
    /\ passList = <<>>
    /\ idx = 1
    /\ results = <<>>
    /\ attempt = None
    /\ cycles = 0
    /\ calls = [a \in Adapters |-> 0]
    /\ succeeded = {}
    /\ enqCycle = [a \in Adapters |-> 0]
    /\ primaryMinutes = <<>>
    /\ troubled = {}
    /\ slowCalls = 0

Range(s) == {s[i] : i \in 1..Len(s)}

\* One subscription per run: the adapters share nothing but the queue.
FetchConfigs == {<<"stock">>, <<"deriv">>, <<"option">>}

InitFetch ==
    /\ now \in StartTimes
    /\ fetchers \in FetchConfigs
    /\ ticks = 0
    /\ InitFetchers
    /\ InitPollIdle
    /\ batch_size = 1
    /\ InitWriter
    /\ InitMatrixBuilder
    /\ InitSignalIdle
    /\ InitFeedIdle

Fetch(a) ==
    /\ a \in Range(fetchers)
    /\ Len(queue) < MaxQueue
    /\ \E out \in Outcomes(a, now) :
          /\ Fetched(a, now, out, fetch_data(a, now, out))
          /\ Observed(a, now, out, fetch_data(a, now, out))
    /\ UNCHANGED <<now, fetchers, ticks>>
    /\ UNCHANGED pollVars
    /\ UNCHANGED writerVars
    /\ UNCHANGED matrixVars
    /\ UNCHANGED signalVars
    /\ UNCHANGED feedVars

Tick ==
    /\ ticks < MaxTicks
    /\ ticks' = ticks + 1
    /\ now' = now + Minute
    /\ UNCHANGED fetchers
    /\ UNCHANGED fetchVars
    /\ UNCHANGED pollVars
    /\ UNCHANGED writerVars
    /\ UNCHANGED matrixVars
    /\ UNCHANGED signalVars
    /\ UNCHANGED feedVars

\* The adapters stay alive over night: once the session has closed, the clock
\* reaches the second minute of the next day's session.
Overnight ==
    /\ now < Day
    /\ TimeOfDay(now) > MARKET_HOURS_STOCK_END
    /\ \A a \in Range(fetchers) : ~is_trading_hours(a, now)
    /\ now' = IF "stock" \in Range(fetchers)
              THEN Day + MARKET_HOURS_STOCK_START + Minute + 30 * Second
              ELSE Day + MARKET_HOURS_DERIV_START + Minute + 30 * Second
    /\ UNCHANGED <<fetchers, ticks>>
    /\ UNCHANGED fetchVars
    /\ UNCHANGED pollVars
    /\ UNCHANGED writerVars
    /\ UNCHANGED matrixVars
    /\ UNCHANGED signalVars
    /\ UNCHANGED feedVars

\* DataProcessor.process_data takes one record off the queue.
Consume ==
    /\ queue # <<>>
    /\ queue' = queue_get(queue)
    /\ issuedAt' = queue_get(issuedAt)
    /\ UNCHANGED <<now, fetchers, ticks, cursor, lastFetchMinute, lastEmitted, last,
                   optionLog>>
    /\ UNCHANGED pollVars
    /\ UNCHANGED writerVars
    /\ UNCHANGED matrixVars
    /\ UNCHANGED signalVars
    /\ UNCHANGED feedVars

NextFetch ==
    \/ \E a \in Adapters : Fetch(a)
    \/ Tick
    \/ Overnight
    \/ Consume

SpecFetch == InitFetch /\ [][NextFetch]_vars

---------------------------------------------------------------------------
\* Properties of the adapters, checked under SpecFetch.

CandleCall == last.who \in CandleAdapters

\* the call got a successful response and reached _select_completed_candle
SelectApplied ==
    /\ CandleCall
    /\ last.open
    /\ last.out.auth = "ok" /\ last.out.http = "200" /\ last.out.rt_cd = "0"
    /\ last.out.output2 # <<>>

SessionClose(a) == IF a = "stock" THEN 1530 ELSE 1545

\* C1: a completed bar whose own timestamp is not strictly newer than that of
\* the last bar the adapter enqueued is never enqueued; the same response fed
\* twice in a row enqueues at most one bar and leaves the cursor unchanged the
\* second time.
C1_Dedup ==
    [][(last'.flip # last.flip /\ last'.who \in CandleAdapters) =>
          /\ (last'.r.enq # <<>> /\ lastEmitted[last'.who] # None)
                => last'.r.enq[1].ohlcv_of > lastEmitted[last'.who]
          /\ (last.who = last'.who /\ last.open /\ last'.open /\ last'.out = last.out)
                => /\ cursor' = cursor
                   /\ Len(last.r.enq) + Len(last'.r.enq) <= 1]_vars

\* C2: _select_completed_candle returns the freshest bar when its stamp is the
\* session's last minute (also when it is the only bar), otherwise the bar at
\* index 1 when there are two or more bars, and never a bar at another index.
C2_SelectCompleted ==
    SelectApplied =>
        LET candles == last.out.output2
            fresh == candles[1].stck_cntg_hour
        IN /\ StartsWith(fresh, SessionClose(last.who)) => last.r.sel = candles[1]
           /\ (~StartsWith(fresh, SessionClose(last.who)) /\ Len(candles) >= 2)
                 => last.r.sel = candles[2]
           /\ \/ last.r.sel = candles[1]
              \/ Len(candles) >= 2 /\ last.r.sel = candles[2]

C2_Witness ==
    /\ SelectApplied
    /\ last.who = "deriv"
    /\ Len(last.out.output2) = 1
    /\ StartsWith(last.out.output2[1].stck_cntg_hour, 1545)
    /\ last.r.sel = last.out.output2[1]

\* C3 as stated: on the first invocation for a symbol (cursor unset) the
\* detector enqueues nothing and only sets the cursor.
C3_FirstRunSilent ==
    (CandleCall /\ last.cur0 = None) => last.r.enq = <<>>

\* C3 as amended: on the first invocation that selects a bar (cursor unset)
\* the detector sets the cursor to the observed timestamp and enqueues the
\* selected bar in that same invocation; a bar whose fields do not convert
\* raises instead, the cursor set all the same.
C3_FirstRunEmits ==
    (SelectApplied /\ last.cur0 = None) =>
        /\ Converts(last.r.sel) =>
              /\ last.r.result = "record"
              /\ Len(last.r.enq) = 1
              /\ last.r.enq[1].ohlcv_of = last.r.sel.stck_cntg_hour
              /\ last.r.enq[1].symbol = last.who
        /\ ~Converts(last.r.sel) => (last.r.result = "raise" /\ last.r.enq = <<>>)
        /\ last.r.cursor = (IF last.who = "deriv" THEN last.r.sel.stck_cntg_hour
                            ELSE last.out.output2[1].stck_cntg_hour)
        /\ cursor[last.who] = last.r.cursor

C3_Witness ==
    /\ SelectApplied
    /\ last.cur0 = None
    /\ Len(last.out.output2) = 2
    /\ Len(last.r.enq) = 1
    /\ queue = last.r.enq

\* C4: a response with fewer than two raw bars whose freshest bar is not the
\* session-close bar completes no bar: nothing enqueued, cursor not advanced.
C4_SingleBarCompletesNothing ==
    (/\ CandleCall
     /\ last.open
     /\ last.out.auth = "ok" /\ last.out.http = "200"
     /\ Len(last.out.output2) < 2
     /\ \/ last.out.output2 = <<>>
        \/ ~StartsWith(last.out.output2[1].stck_cntg_hour, SessionClose(last.who)))
    => /\ last.r.enq = <<>>
       /\ last.r.cursor = last.cur0

\* the call was answered with the current minute's bar first and the
\* previous minute's bar second
ListsCurrentAndPrevious(c) ==
    /\ c.who \in CandleAdapters
    /\ c.open
    /\ c.out.auth = "ok" /\ c.out.http = "200" /\ c.out.rt_cd = "0"
    /\ Len(c.out.output2) = 2
    /\ c.out.output2[1].stck_cntg_hour = BarTime(TimeOfDay(c.at) \div Minute)
    /\ c.out.output2[2].stck_cntg_hour = BarTime((TimeOfDay(c.at) \div Minute) - 1)

\* C28: no completed bar is skipped: an adapter polled once in every minute,
\* each response listing the current minute's bar first and the previous
\* minute's bar second, enqueues every minute bar from the first one selected
\* through the session-close bar exactly once.  A poll can only enqueue one of
\* the two bars it is shown, so the poll of the minute after one that enqueued
\* its previous minute's bar has to enqueue the bar that follows it.
C28_NoBarSkipped ==
    [][(/\ last'.flip # last.flip
        /\ last'.who = last.who
        /\ ListsCurrentAndPrevious(last) /\ ListsCurrentAndPrevious(last')
        /\ last'.at \div Minute = (last.at \div Minute) + 1
        /\ Len(last.r.enq) = 1
        /\ last.r.enq[1].ohlcv_of = last.out.output2[2].stck_cntg_hour)
       => /\ Len(last'.r.enq) = 1
          /\ last'.r.enq[1].ohlcv_of = last.out.output2[1].stck_cntg_hour]_vars

\* C29: a cursor value set during one trading session never suppresses bars of
\* a later session: after the session-close bar has been emitted, the first
\* completed bar of the next trading day is still emitted by the same running
\* adapter.
C29_NextSessionEmits ==
    [][(/\ last'.flip # last.flip
        /\ last'.who = last.who
        /\ last.who \in CandleAdapters
        /\ last.at < Day /\ last'.at >= Day
        /\ lastEmitted[last.who] # None
        /\ StartsWith(lastEmitted[last.who], SessionClose(last.who))
        /\ ListsCurrentAndPrevious(last'))
       => /\ Len(last'.r.enq) = 1
          /\ last'.r.enq[1].ohlcv_of = last'.out.output2[2].stck_cntg_hour]_vars

\* the call selected a bar whose conversion raised
ConversionFailed(c) ==
    /\ c.who \in CandleAdapters
    /\ c.open
    /\ c.out.auth = "ok" /\ c.out.http = "200"
    /\ c.r.result = "raise"

\* the same bars, every field a number
WellFormed(output2) ==
    [i \in 1..Len(output2) |-> [output2[i] EXCEPT !.ohlcv = "numeric"]]

\* C30: a malformed response is treated like a transient failure: when the
\* conversion of the selected bar fails, the adapter's cursor is left
\* unchanged, so that a retry that receives a well-formed response for the
\* same minute still emits that bar.
C30_MalformedLeavesCursor ==
    [][(last'.flip # last.flip /\ last'.who \in CandleAdapters) =>
          /\ ConversionFailed(last') => cursor' = cursor
          /\ (/\ ConversionFailed(last)
              /\ last'.who = last.who
              /\ last'.at \div Minute = last.at \div Minute
              /\ last'.open
              /\ last'.out = [last.out EXCEPT !.output2 = WellFormed(@)])
             => /\ Len(last'.r.enq) = 1
                /\ last'.r.enq[1].ohlcv_of = last.r.sel.stck_cntg_hour]_vars

\* C32: distinct completed bars emitted by one adapter carry distinct
\* (timestamp, symbol) keys, so that the upsert keyed by (timestamp, symbol)
\* never overwrites the bar of a different minute.
C32_DistinctKeys ==
    \A i, j \in 1..Len(queue) :
        (/\ i < j
         /\ queue[i].symbol \in CandleAdapters
         /\ queue[i].symbol = queue[j].symbol
         /\ queue[i].ohlcv_of # queue[j].ohlcv_of)
        => queue[i].timestamp # queue[j].timestamp

\* the trading-hours windows of consts.py, as the claim means them
OutsideWindow(a, t) ==
    IF a = "stock"
    THEN TimeOfDay(t) < Clock(9, 0, 0) \/ TimeOfDay(t) > Clock(15, 32, 0)
    ELSE TimeOfDay(t) < Clock(8, 45, 0) \/ TimeOfDay(t) > Clock(15, 47, 0)

\* C10: outside its trading-hours window an adapter's fetch_data returns an
\* empty record, asks for no credential, sends no request, leaves its cursor
\* or rate-limit marker alone and enqueues nothing.
C10_ClosedMarketNoOp ==
    (last.who \in Adapters /\ OutsideWindow(last.who, last.at)) =>
        /\ last.r.result = "empty"
        /\ ~last.r.tok
        /\ ~last.r.req
        /\ last.r.enq = <<>>
        /\ last.r.cursor = last.cur0
        /\ last.who \in CandleAdapters => cursor[last.who] = last.cur0
        /\ last.who = "option" => lastFetchMinute = last.cur0

C10_Witness ==
    /\ last.who = "deriv"
    /\ TimeOfDay(last.at) > Clock(15, 47, 0)
    /\ last.cur0 # None
    /\ last.r.result = "empty"
    /\ last.out.output2 # <<>>

---------------------------------------------------------------------------
\* SpecPoll: PollingManager.start_polling driving the adapters.
polling_interval == 20        \* KISConfig.polling_interval, 2 s
NoPause == 0 * Second         \* a fetch followed by no sleep
FetchPause == 5               \* asyncio.sleep(0.5) after every fetch
MaxRetries == 10              \* for i in range(10)
ClientTimeout == 300          \* httpx.AsyncClient(timeout=30.0)

sleep_time(i) == IF i < 5 THEN 20 + i * 3 ELSE 40

wait_seconds_IntervalOnly(t) == polling_interval

\* 60.0 - now.second - now.microsecond / 1_000_000 + self._interval
wait_seconds(t) == (Minute - (t % Minute)) + polling_interval

\* how long the awaited fetch_data call takes
Duration(out, r) == IF r.req /\ out.http = "timeout" THEN ClientTimeout ELSE 0

\* "except Exception" of _execute_fetch_cycle
execute_fetch_cycle_catches_Nothing(result) == FALSE

execute_fetch_cycle_catches(result) == result = "raise"

\* "for i in range(10)": whether retry pass number i (from 0) is run
retry_allowed_OneMore(i) == i <= MaxRetries

retry_allowed(i) == i < MaxRetries

\* "if not result or isinstance(result, Exception)"
IsFailed(result) == result = "empty" \/ result = "raise"

failed_fetchers_KeepsAll(fs, rs) ==
    IF \E k \in 1..Len(rs) : IsFailed(rs[k]) THEN fs ELSE <<>>

RECURSIVE failed_fetchers(_, _)
failed_fetchers(fs, rs) ==
    IF fs = <<>> THEN <<>>
    ELSE (IF IsFailed(Head(rs)) THEN <<Head(fs)>> ELSE <<>>)
         \o failed_fetchers(Tail(fs), Tail(rs))

\* the subscriptions of main.py
PollConfigs == {<<"deriv", "option">>}

PollStartTimes == {Clock(15, 28, 30)}

InitPoll ==
    /\ now \in PollStartTimes
    /\ fetchers \in PollConfigs
    /\ ticks = 0
    /\ InitFetchers
    /\ InitPollIdle
    /\ batch_size = 1
    /\ InitWriter
    /\ InitMatrixBuilder
    /\ InitSignalIdle
    /\ InitFeedIdle

StartPolling ==
    /\ pc = "idle"
    /\ running' = TRUE
    /\ pc' = "loop"
    /\ UNCHANGED <<now, fetchers, ticks, passList, idx, results, attempt, cycles,
                   calls, succeeded, enqCycle, primaryMinutes, troubled, slowCalls>>
    /\ UNCHANGED fetchVars
    /\ UNCHANGED writerVars
    /\ UNCHANGED matrixVars
    /\ UNCHANGED signalVars
    /\ UNCHANGED feedVars

\* "while self._running": leave the loop, or sleep to the next minute boundary
\* plus the interval and begin the primary pass.
LoopTop ==
    /\ pc = "loop"
    /\ IF ~running
       THEN /\ pc' = "returned"
            /\ UNCHANGED <<now, passList, idx, results, attempt, cycles,
                           calls, succeeded, enqCycle, primaryMinutes>>
       ELSE /\ cycles < MaxCycles
            /\ LET woke == IF wait_seconds(now) > 0 THEN now + wait_seconds(now) ELSE now
               IN /\ now' = woke
                  /\ primaryMinutes' =
                        IF primaryMinutes = <<>> THEN <<woke \div Minute>>
                        ELSE <<primaryMinutes[Len(primaryMinutes)], woke \div Minute>>
            /\ pc' = "pass"
            /\ passList' = fetchers
            /\ idx' = 1
            /\ results' = <<>>
            /\ attempt' = None
            /\ cycles' = cycles + 1
            /\ calls' = [a \in Adapters |-> 0]
            /\ succeeded' = {}
            /\ enqCycle' = [a \in Adapters |-> 0]
    /\ UNCHANGED <<fetchers, ticks, running, troubled, slowCalls>>
    /\ UNCHANGED fetchVars
    /\ UNCHANGED writerVars
    /\ UNCHANGED matrixVars
    /\ UNCHANGED signalVars
    /\ UNCHANGED feedVars

\* One turn of "for fetcher in fetchers_to_process" in _execute_fetch_cycle.
PollFetch ==
    /\ pc = "pass"
    /\ idx <= Len(passList)
    /\ Len(queue) < MaxQueue
    /\ LET a == passList[idx] IN
       \E out \in Outcomes(a, now) :
          LET r == fetch_data(a, now, out) IN
          /\ Duration(out, r) > 0 => slowCalls < MaxSlowCalls
          /\ Fetched(a, now, out, r)
          /\ now' = now + Duration(out, r) + FetchPause
          /\ slowCalls' = IF Duration(out, r) > 0 THEN slowCalls + 1 ELSE slowCalls
          /\ calls' = [calls EXCEPT ![a] = @ + 1]
          /\ succeeded' = IF r.result = "record" THEN succeeded \cup {a} ELSE succeeded
          /\ enqCycle' = [enqCycle EXCEPT ![a] = @ + Len(r.enq)]
          /\ troubled' = IF IsFailed(r.result) THEN troubled \cup {a} ELSE troubled
          /\ IF r.result = "raise" /\ ~execute_fetch_cycle_catches(r.result)
             THEN \* the error reaches "except Exception" of start_polling
                  /\ pc' = "loop"
                  /\ UNCHANGED <<idx, results>>
             ELSE /\ results' = Append(results, r.result)
                  /\ idx' = idx + 1
                  /\ pc' = pc
    /\ UNCHANGED <<fetchers, ticks, running, passList, attempt, cycles, primaryMinutes,
                   last>>
    /\ UNCHANGED writerVars
    /\ UNCHANGED matrixVars
    /\ UNCHANGED signalVars
    /\ UNCHANGED feedVars

\* _execute_fetch_cycle returns: recompute failed_fetchers and either start
\* the next retry pass after its back-off or end the cycle.
PassEnd ==
    /\ pc = "pass"
    /\ idx > Len(passList)
    /\ LET failed == failed_fetchers(passList, results)
           next_i == IF attempt = None THEN 0 ELSE attempt + 1
       IN /\ passList' = failed
          /\ IF failed # <<>> /\ retry_allowed(next_i)
             THEN /\ attempt' = next_i
                  /\ now' = now + sleep_time(next_i)
                  /\ idx' = 1
                  /\ results' = <<>>
                  /\ pc' = "pass"
             ELSE /\ pc' = "loop"
                  /\ UNCHANGED <<now, attempt, idx, results>>
    /\ UNCHANGED <<fetchers, ticks, running, cycles, calls, succeeded, enqCycle,
                   primaryMinutes, troubled, slowCalls>>
    /\ UNCHANGED fetchVars
    /\ UNCHANGED writerVars
    /\ UNCHANGED matrixVars
    /\ UNCHANGED signalVars
    /\ UNCHANGED feedVars

Stop_Preempts ==
    /\ running
    /\ running' = FALSE
    /\ pc' = "returned"
    /\ UNCHANGED <<now, fetchers, ticks, passList, idx, results, attempt, cycles,
                   calls, succeeded, enqCycle, primaryMinutes, troubled, slowCalls>>
    /\ UNCHANGED fetchVars
    /\ UNCHANGED writerVars
    /\ UNCHANGED matrixVars
    /\ UNCHANGED signalVars
    /\ UNCHANGED feedVars

Stop ==
    /\ running
    /\ running' = FALSE
    /\ UNCHANGED <<now, fetchers, ticks, pc, passList, idx, results, attempt, cycles,
                   calls, succeeded, enqCycle, primaryMinutes, troubled, slowCalls>>
    /\ UNCHANGED fetchVars
    /\ UNCHANGED writerVars
    /\ UNCHANGED matrixVars
    /\ UNCHANGED signalVars
    /\ UNCHANGED feedVars

NextPoll ==
    \/ StartPolling
    \/ LoopTop
    \/ PollFetch
    \/ PassEnd
    \/ Stop
    \/ Consume

SpecPoll == InitPoll /\ [][NextPoll]_vars

---------------------------------------------------------------------------
\* Properties of the polling loop, checked under SpecPoll.

PassOver == pc = "pass" /\ idx > Len(passList)

\* C5: a cycle has at most 10 retry passes after the primary pass, so no
\* adapter is fetched more than 11 times in a cycle; when adapters still fail
\* after the 10th retry the cycle ends and the loop goes on to sleep to the
\* next minute boundary.
C5_RetryBound ==
    /\ [](/\ \A a \in Adapters : calls[a] <= 11
          /\ attempt # None => attempt + 1 <= 10
          /\ \A a \in Range(passList) : calls[a] <= attempt + 2)
    /\ [][(PassOver /\ attempt = 9 /\ pc' # pc) => pc' = "loop"]_vars
    /\ [][(pc = "loop" /\ running /\ pc' # pc) =>
             /\ pc' = "pass"
             /\ attempt' = None
             /\ passList' = fetchers
             /\ now' = (now \div Minute + 1) * Minute + polling_interval]_vars

C5_Witness ==
    /\ pc = "pass"
    /\ cycles = 2
    /\ attempt = 9
    /\ idx > Len(passList)
    /\ passList = <<"deriv", "option">>
    /\ calls["deriv"] = 11
    /\ calls["option"] = 11

\* C6: an adapter whose fetch_data returned a record in this cycle is not
\* invoked again in the cycle, the retry set only shrinks from pass to pass,
\* and each adapter enqueues exactly one record in a cycle in which it
\* succeeded and none otherwise.
C6_SuccessLeavesRetrySet ==
    /\ [](/\ pc = "pass" => \A k \in idx..Len(passList) : passList[k] \notin succeeded
          /\ \A a \in Adapters : enqCycle[a] = (IF a \in succeeded THEN 1 ELSE 0)
          /\ \A a \in succeeded : calls[a] >= 1)
    /\ [][(pc = "pass" /\ cycles' = cycles) =>
             Range(passList') \subseteq Range(passList)]_vars
    /\ [][(PassOver /\ passList' # passList) =>
             Range(passList') = Range(passList) \ succeeded]_vars
    /\ [][\A a \in Adapters : (a \in succeeded /\ cycles' = cycles) =>
             calls'[a] = calls[a]]_vars

C6_Witness ==
    /\ succeeded = {"deriv", "option"}
    /\ calls["option"] = 1
    /\ calls["deriv"] = 4
    /\ enqCycle["deriv"] = 1
    /\ enqCycle["option"] = 1
    /\ pc = "loop"

\* C7: an exception raised by fetch_data is caught in _execute_fetch_cycle and
\* recorded as a failed result: the pass goes on to the remaining adapters,
\* the adapter is in the retry set (while retries remain), and start_polling
\* returns only because the running flag was cleared.
C7_ExceptionsContained ==
    /\ [][(calls' # calls /\ cycles' = cycles) =>
             /\ pc' = "pass"
             /\ passList' = passList
             /\ idx' = idx + 1
             /\ Len(results') = idx
             /\ results'[idx] \in {"record", "empty", "raise"}
             /\ results'[idx] = "raise" => passList[idx] \in troubled']_vars
    /\ [][(PassOver /\ (pc' # pc \/ attempt' # attempt)) =>
             \A k \in 1..Len(passList) :
                results[k] = "raise" => passList[k] \in Range(passList')]_vars
    /\ [](pc = "returned" => ~running)

C7_Witness ==
    /\ pc = "pass"
    /\ Len(results) = 2
    /\ results[1] = "raise"
    /\ results[2] = "record"
    /\ cycles = 2

\* C8: an adapter that keeps failing degrades only its own symbol: a candle
\* adapter whose every fetch returned a bar is polled by a primary pass in
\* every minute, so that none of its minutes is skipped.
C8_NoMinuteSkipped ==
    \A a \in Range(fetchers) \cap CandleAdapters :
        (a \notin troubled /\ Len(primaryMinutes) = 2)
            => primaryMinutes[2] = primaryMinutes[1] + 1

\* C9: stop() only clears the running flag; the pass or retry ladder in
\* progress runs to completion; the loop leaves at its next condition check;
\* after start_polling has returned no fetch is issued.
C9_StopCooperative ==
    /\ [][(running /\ ~running') =>
             UNCHANGED <<now, fetchers, cursor, lastFetchMinute, queue, pc, passList,
                         idx, results, attempt, cycles, calls>>]_vars
    /\ [][(~running /\ pc = "pass" /\ pc' # pc) =>
             /\ pc' = "loop"
             /\ idx > Len(passList)
             /\ (passList' = <<>> \/ attempt = 9)]_vars
    /\ [][(~running /\ pc = "loop" /\ pc' # pc) => pc' = "returned"]_vars
    /\ [][pc = "returned" =>
             /\ pc' = "returned"
             /\ UNCHANGED <<now, cursor, lastFetchMinute, calls, cycles, running>>]_vars

C9_Witness ==
    /\ pc = "returned"
    /\ cycles = 1
    /\ calls["option"] = 11
    /\ calls["deriv"] = 3
    /\ succeeded = {"deriv"}

---------------------------------------------------------------------------
\* Further properties of the adapters, checked under SpecFetch.

\* the inter-call pause of the claim, 0.5 s
InterCallPause == 5

\* a step in which a fetch_data call was made
FetchMade == \E a \in Adapters : calls'[a] = calls[a] + 1

\* C34: fetch calls are serialized: at most one adapter's fetch_data is in
\* flight in a PollingManager at any time, and every fetch call, successful or
\* failed, is followed by the inter-call pause before the next fetch starts.
\* A fetch is one turn of the pass: it belongs to the adapter the pass has
\* reached, no other adapter is called in it, and the clock at which the next
\* turn can start is at least the pause later.
C34_FetchesSerialized ==
    [][FetchMade =>
          /\ pc = "pass" /\ idx <= Len(passList)
          /\ calls' = [calls EXCEPT ![passList[idx]] = @ + 1]
          /\ now' >= now + InterCallPause
          /\ idx' = idx + 1 /\ pc' = "pass"]_vars

C34_Witness ==
    /\ pc = "pass"
    /\ Len(results) = 2
    /\ results[1] = "raise"
    /\ results[2] = "empty"
    /\ slowCalls = 1
    /\ now % Minute = polling_interval + ClientTimeout + 2 * FetchPause

\* C35: minute alignment: every primary fetch pass starts no earlier than the
\* first minute boundary after its loop iteration began plus the configured
\* offset; with an offset below 60 seconds two primary passes never start
\* within the same wall-clock minute.
C35_MinuteAligned ==
    /\ [][cycles' = cycles + 1 =>
            /\ now' >= FloorMinute(now) + Minute + polling_interval
            /\ primaryMinutes'[Len(primaryMinutes')] = now' \div Minute]_vars
    /\ [](Len(primaryMinutes) = 2 => primaryMinutes[1] < primaryMinutes[2])

C35_Witness ==
    /\ cycles = 2
    /\ pc = "pass"
    /\ idx = 1
    /\ attempt = None
    /\ Len(primaryMinutes) = 2
    /\ primaryMinutes[2] = primaryMinutes[1] + 1

\* the records of one adapter that wait in the queue, oldest fetch first
PutInOrder ==
    \A i, j \in 1..Len(queue) :
        (i < j /\ queue[i].symbol = queue[j].symbol) => issuedAt[i] < issuedAt[j]

\* a step that takes a record takes the one at the head, behind which every
\* record of the same adapter comes from a later fetch
TakeInOrder ==
    Len(queue') < Len(queue) =>
        /\ queue' = Tail(queue)
        /\ issuedAt' = Tail(issuedAt)
        /\ \A i \in 2..Len(queue) :
              queue[i].symbol = queue[1].symbol => issuedAt[1] < issuedAt[i]

\* C27: the records one adapter produces are put on the shared queue, and
\* taken off it by the consumer, in the order in which that adapter's fetches
\* were issued.
C27_PerAdapterOrder == [](PutInOrder /\ Len(issuedAt) = Len(queue)) /\ [][TakeInOrder]_vars

C27_Witness ==
    /\ Len(queue) = 2
    /\ queue[1].symbol = queue[2].symbol
    /\ issuedAt[1] < issuedAt[2]
    /\ cycles = 2

\* C11: in any one wall-clock minute an OptionChainFetcher sends at most one
\* request to the source and enqueues at most one snapshot, however often
\* fetch_data is called in that minute.
C11_OptionRateLimit ==
    /\ optionLog.reqs <= 1
    /\ optionLog.enqs <= 1

C11_Witness ==
    /\ last.who = "option"
    /\ last.open
    /\ last.at \div Minute = optionLog.minute
    /\ optionLog.reqs = 1
    /\ optionLog.enqs = 1
    /\ last.out.auth = "ok" /\ last.out.http = "200" /\ last.out.rt_cd = "0"
    /\ last.out.output1 # <<>>
    /\ last.r.result = "empty"
    /\ ~last.r.req

\* the source answered the request with a failure: a non-2xx status, or a
\* 2xx status whose rt_cd is not "0"
HttpFailure == last.r.req /\ last.out.http = "500"

StatusFieldFailure == last.r.req /\ last.out.http = "200" /\ last.out.rt_cd # "0"

\* C12 as stated: a non-2xx response, or a response whose rt_cd is not "0",
\* makes fetch_data raise an error rather than return a value.
C12_FailedResponseRaises ==
    (last.who \in Adapters /\ (HttpFailure \/ StatusFieldFailure))
        => last.r.result = "raise"

\* C12 as amended: a non-2xx response makes fetch_data raise; a response whose
\* rt_cd is not "0" makes it return the empty record without enqueuing
\* anything or moving the candle cursor, and the polling loop counts that
\* empty record as a failed result just as it counts a raised error.
C12_FailedResponseFails ==
    /\ (last.who \in Adapters /\ HttpFailure) =>
           /\ last.r.result = "raise"
           /\ last.r.enq = <<>>
    /\ (last.who \in Adapters /\ StatusFieldFailure) =>
           /\ last.r.result = "empty"
           /\ last.r.enq = <<>>
           /\ last.who \in CandleAdapters => last.r.cursor = last.cur0
    /\ (last.who \in Adapters /\ (HttpFailure \/ StatusFieldFailure)) =>
           IsFailed(last.r.result)

C12_Witness ==
    /\ last.who = "deriv"
    /\ StatusFieldFailure
    /\ last.cur0 # None
    /\ last.r.result = "empty"
    /\ cursor["deriv"] = last.cur0

\* the option-chain attempt got past the rate limit and then raised or was
\* answered with a failure status
OptionAttemptFailed(c) ==
    /\ c.who = "option"
    /\ c.open
    /\ c.r.tok
    /\ IsFailed(c.r.result)
    /\ c.out.auth = "fail" \/ c.out.http # "200" \/ c.out.rt_cd # "0"

\* the source would answer the call with a snapshot
OptionSourceSucceeds(c) ==
    /\ c.out.auth = "ok" /\ c.out.http = "200" /\ c.out.rt_cd = "0"
    /\ c.out.output1 # <<>> \/ c.out.output2 # <<>>

\* C31: a transient failure of an option-chain fetch is retried within the
\* cycle: after an attempt that raised or returned a failure status, a retry
\* made in the same wall-clock minute issues a new request to the source and,
\* if that request succeeds, enqueues the snapshot and leaves the retry set.
C31_OptionRetriedInMinute ==
    [][(/\ last'.flip # last.flip
        /\ OptionAttemptFailed(last)
        /\ last'.who = "option"
        /\ last'.at \div Minute = last.at \div Minute
        /\ OptionSourceSucceeds(last'))
       => /\ last'.r.req
          /\ Len(last'.r.enq) = 1
          /\ ~IsFailed(last'.r.result)]_vars

\* the call failed at the credential provider
CredentialFailure == CandleCall /\ last.open /\ last.out.auth = "fail"

\* C13: a credential-provider failure in a candle adapter's fetch_data comes
\* out as a raised error, which _execute_fetch_cycle catches and the loop
\* counts as failed; no request is sent, nothing is enqueued and the cursor
\* stays where it was, so the adapter's next call starts from the same cursor
\* and enqueues the bar it selects whenever that bar converts and is newer
\* than the cursor.
C13_CredentialFailureRetryable ==
    /\ [](CredentialFailure =>
            /\ last.r.result = "raise"
            /\ execute_fetch_cycle_catches(last.r.result)
            /\ IsFailed(last.r.result)
            /\ ~last.r.req
            /\ last.r.enq = <<>>
            /\ cursor[last.who] = last.cur0)
    /\ [][(CredentialFailure /\ last'.flip # last.flip) =>
             /\ last'.cur0 = last.cur0
             /\ (/\ SelectApplied'
                 /\ Converts(last'.r.sel)
                 /\ \/ last.cur0 = None
                    \/ last.cur0 < (IF last'.who = "deriv"
                                    THEN last'.r.sel.stck_cntg_hour
                                    ELSE last'.out.output2[1].stck_cntg_hour))
                => /\ last'.r.result = "record"
                   /\ Len(last'.r.enq) = 1
                   /\ last'.r.enq[1].ohlcv_of = last'.r.sel.stck_cntg_hour]_vars

C13_Witness ==
    /\ last.who = "deriv"
    /\ last.afterCredentialFailure
    /\ last.cur0 # None
    /\ last.r.result = "record"
    /\ last.at \div Minute = 15 * 60 + 30
    /\ lastEmitted["deriv"] = 152900
    /\ cursor["deriv"] = 152900
    /\ last.cur0 = 152800

---------------------------------------------------------------------------
\* The batch writer (src/src/database/data_writer.py).
MaxBatchSize == 2    \* largest size threshold the writer is configured with
MaxRecords == 2      \* records handed to save_candle_data in a run
MaxSaves == 2        \* calls of save_option_matrices in a run

\* DataWriter.batch_size is 1 as constructed; the flush loop and _write_batch
\* are written for any threshold.
BatchSizes == 1..MaxBatchSize

batch_timeout == 10  \* DataWriter.batch_timeout, 1.0 s

\* Symbols are strings; the writer reads their first characters.
KOSPI200_Sep == <<"1", "0", "1", "W", "0", "9">>
KOSPI200_Dec == <<"1", "0", "1", "W", "1", "2">>
Samsung == <<"0", "0", "5", "9", "3", "0">>
KBFinancial == <<"1", "0", "5", "5", "6", "0">>

DerivSymbols == {KOSPI200_Sep, KOSPI200_Dec}
StockSymbols == {Samsung, KBFinancial}

\* CandleData.to_dict(): data_type "d" gives type "d_candle", "s" gives "s_candle"
CandleRecords ==
    {[type |-> "d_candle", symbol |-> sym] : sym \in DerivSymbols} \cup
    {[type |-> "s_candle", symbol |-> sym] : sym \in StockSymbols}

\* "candle" in data.get("type", "")
HasCandle(type) == type \in {"d_candle", "s_candle"}

\* symbol.startswith("1")
StartsWith1(symbol) == Len(symbol) >= 1 /\ symbol[1] = "1"

\* str.lower(), on the characters that occur in symbols
Lower(c) == IF c = "W" THEN "w" ELSE c

\* symbol[:3].lower()
table_name_suffix(symbol) ==
    [i \in 1..(IF Len(symbol) < 3 THEN Len(symbol) ELSE 3) |-> Lower(symbol[i])]

FuturesTable(symbol) == [family |-> "futures", suffix |-> table_name_suffix(symbol)]

StocksTable == [family |-> "stocks_1m", suffix |-> <<>>]

\* the keys of a dict, in the order of first insertion
RECURSIVE DictKeys(_)
DictKeys(seq) ==
    IF seq = <<>> THEN <<>>
    ELSE <<Head(seq)>> \o DictKeys(SelectSeq(Tail(seq), LAMBDA x : x # Head(seq)))

IsFutures(data) == HasCandle(data.type) /\ StartsWith1(data.symbol)

IsStocks(data) == HasCandle(data.type) /\ ~StartsWith1(data.symbol)

\* futures_by_symbol: its keys, and the list under one key
futures_symbols(b) ==
    DictKeys([i \in 1..Len(SelectSeq(b, IsFutures)) |-> SelectSeq(b, IsFutures)[i].symbol])

symbol_data(b, symbol) == SelectSeq(b, LAMBDA d : IsFutures(d) /\ d.symbol = symbol)

stocks_data(b) == SelectSeq(b, IsStocks)

CreateOp(table) == [op |-> "create", table |-> table, rows |-> <<>>]

InsertOp(table, rows) == [op |-> "insert", table |-> table, rows |-> rows]

RECURSIVE futures_ops_NoCache(_, _, _)
futures_ops_NoCache(b, symbols, created) ==
    IF symbols = <<>> THEN <<>>
    ELSE <<CreateOp(FuturesTable(Head(symbols))),
           InsertOp(FuturesTable(Head(symbols)), symbol_data(b, Head(symbols)))>>
         \o futures_ops_NoCache(b, Tail(symbols), created)

\* "for symbol, symbol_data in futures_by_symbol.items()": the storage
\* operations the loop asks for, given the tables already in the cache
RECURSIVE futures_ops(_, _, _)
futures_ops(b, symbols, created) ==
    IF symbols = <<>> THEN <<>>
    ELSE LET symbol == Head(symbols)
             table_key == FuturesTable(symbol)
         IN (IF table_key \notin created THEN <<CreateOp(table_key)>> ELSE <<>>)
            \o <<InsertOp(table_key, symbol_data(b, symbol))>>
            \o futures_ops(b, Tail(symbols), created \cup {table_key})

\* _write_batch: the storage operations of one batch, in order
write_batch_ops(b, created) ==
    futures_ops(b, futures_symbols(b), created)
    \o (IF stocks_data(b) # <<>> THEN <<InsertOp(StocksTable, stocks_data(b))>> ELSE <<>>)

\* the storage operations that ran to completion when operation k raised
\* (k = 0: none raised), and the create_dynamic_table invocations among the
\* operations begun
Completed(ops, k) == IF k = 0 THEN ops ELSE SubSeq(ops, 1, k - 1)

Begun(ops, k) == IF k = 0 THEN ops ELSE SubSeq(ops, 1, k)

CreatesOf(ops, k) ==
    LET begun == SelectSeq(Begun(ops, k), LAMBDA o : o.op = "create")
    IN [i \in 1..Len(begun) |->
           [table |-> begun[i].table,
            ok |-> \E j \in 1..Len(Completed(ops, k)) : Completed(ops, k)[j] = begun[i]]]

CreatedBy(ops, k) ==
    {Completed(ops, k)[j].table :
        j \in {i \in 1..Len(Completed(ops, k)) : Completed(ops, k)[i].op = "create"}}

\* deadline.done(): the sleep has run out or the task was cancelled
deadline_done_Never(d, t) == FALSE

deadline_done(d, t) == d.cancelled \/ t >= d.at

\* save_candle_data
SaveCandleData ==
    /\ accepted.records < MaxRecords
    /\ \E data \in CandleRecords :
          /\ batch_queue' = Append(batch_queue, data)
          /\ accepted' = [accepted EXCEPT !.records = @ + 1, !.log = Append(@, data)]
    /\ UNCHANGED <<batch_size, created_tables, wpc, batch, deadline, firstAt, flushed,
                   createLog, errorsLogged>>
    /\ UNCHANGED <<now, fetchers, ticks>>
    /\ UNCHANGED fetchVars
    /\ UNCHANGED pollVars
    /\ UNCHANGED matrixVars
    /\ UNCHANGED signalVars
    /\ UNCHANGED feedVars

\* "while True": a new batch and a new deadline task
WriterTop ==
    /\ wpc = "top"
    /\ batch' = <<>>
    /\ deadline' = [at |-> now + batch_timeout, cancelled |-> FALSE]
    /\ firstAt' = None
    /\ wpc' = IF 0 < batch_size THEN "collect" ELSE "flush"
    /\ UNCHANGED <<batch_size, batch_queue, created_tables, flushed, createLog,
                   errorsLogged, accepted>>
    /\ UNCHANGED <<now, fetchers, ticks>>
    /\ UNCHANGED fetchVars
    /\ UNCHANGED pollVars
    /\ UNCHANGED matrixVars
    /\ UNCHANGED signalVars
    /\ UNCHANGED feedVars

\* asyncio.wait returns with get_task done: the record joins the batch and a
\* deadline that has not run out is cancelled
CollectGet ==
    /\ wpc = "collect"
    /\ batch_queue # <<>>
    /\ batch' = Append(batch, Head(batch_queue))
    /\ batch_queue' = Tail(batch_queue)
    /\ deadline' = IF ~deadline_done(deadline, now)
                   THEN [deadline EXCEPT !.cancelled = TRUE] ELSE deadline
    /\ firstAt' = IF batch = <<>> THEN now ELSE firstAt
    /\ wpc' = IF Len(batch') < batch_size THEN "collect" ELSE "flush"
    /\ UNCHANGED <<batch_size, created_tables, flushed, createLog, errorsLogged, accepted>>
    /\ UNCHANGED <<now, fetchers, ticks>>
    /\ UNCHANGED fetchVars
    /\ UNCHANGED pollVars
    /\ UNCHANGED matrixVars
    /\ UNCHANGED signalVars
    /\ UNCHANGED feedVars

CollectTimeout_TakesRecord ==
    /\ wpc = "collect"
    /\ deadline_done(deadline, now)
    /\ wpc' = "flush"
    /\ batch_queue' = IF batch_queue = <<>> THEN batch_queue ELSE Tail(batch_queue)
    /\ UNCHANGED <<batch_size, created_tables, batch, deadline, firstAt,
                   flushed, createLog, errorsLogged, accepted>>
    /\ UNCHANGED <<now, fetchers, ticks>>
    /\ UNCHANGED fetchVars
    /\ UNCHANGED pollVars
    /\ UNCHANGED matrixVars
    /\ UNCHANGED signalVars
    /\ UNCHANGED feedVars

\* asyncio.wait returns with only the deadline done: get_task.cancel(); break.
\* The cancelled get has taken nothing: Queue.get removes a record only after
\* its wait, in the step that also completes the task.
CollectTimeout ==
    /\ wpc = "collect"
    /\ deadline_done(deadline, now)
    /\ wpc' = "flush"
    /\ UNCHANGED <<batch_size, batch_queue, created_tables, batch, deadline, firstAt,
                   flushed, createLog, errorsLogged, accepted>>
    /\ UNCHANGED <<now, fetchers, ticks>>
    /\ UNCHANGED fetchVars
    /\ UNCHANGED pollVars
    /\ UNCHANGED matrixVars
    /\ UNCHANGED signalVars
    /\ UNCHANGED feedVars

\* "if batch: await self._write_batch(batch)".  An exception of a storage
\* operation leaves _write_batch and start_batch_writer: nothing catches it.
Flush ==
    /\ wpc = "flush"
    /\ IF batch = <<>>
       THEN /\ wpc' = "top"
            /\ UNCHANGED <<created_tables, flushed, createLog>>
       ELSE LET ops == write_batch_ops(batch, created_tables) IN
            \E k \in 0..Len(ops) :
               /\ flushed' = [ops |-> Completed(ops, k), raised |-> k # 0,
                              batch |-> batch, first |-> firstAt, at |-> now,
                              written |-> flushed.written \o batch]
               /\ created_tables' = created_tables \cup CreatedBy(ops, k)
               /\ createLog' = createLog \o CreatesOf(ops, k)
               /\ wpc' = IF k = 0 THEN "top" ELSE "dead"
    /\ batch' = <<>>
    /\ UNCHANGED <<batch_size, batch_queue, deadline, firstAt, errorsLogged, accepted>>
    /\ UNCHANGED <<now, fetchers, ticks>>
    /\ UNCHANGED fetchVars
    /\ UNCHANGED pollVars
    /\ UNCHANGED matrixVars
    /\ UNCHANGED signalVars
    /\ UNCHANGED feedVars

\* underlying_symbol of a snapshot, and underlying_symbol.lower()
Underlyings == {"202509_KOSPI200"}

LowerName(u) == IF u = "202509_KOSPI200" THEN "202509_kospi200" ELSE u

OptionMatricesTable(u) == [family |-> "option_matrices", suffix |-> LowerName(u)]

\* save_option_matrices: the table is ensured, then the metric rows are
\* upserted; an exception of create_dynamic_table goes to the caller
SaveOptionMatrices ==
    /\ accepted.matrices < MaxSaves
    /\ accepted' = [accepted EXCEPT !.matrices = @ + 1]
    /\ \E underlying_symbol \in Underlyings :
          LET table_key == OptionMatricesTable(underlying_symbol) IN
          IF table_key \notin created_tables
          THEN \E ok \in BOOLEAN :
                  /\ createLog' = Append(createLog, [table |-> table_key, ok |-> ok])
                  /\ created_tables' = IF ok THEN created_tables \cup {table_key}
                                       ELSE created_tables
          ELSE UNCHANGED <<created_tables, createLog>>
    /\ UNCHANGED <<batch_size, batch_queue, wpc, batch, deadline, firstAt, flushed,
                   errorsLogged>>
    /\ UNCHANGED <<now, fetchers, ticks>>
    /\ UNCHANGED fetchVars
    /\ UNCHANGED pollVars
    /\ UNCHANGED matrixVars
    /\ UNCHANGED signalVars
    /\ UNCHANGED feedVars

\* Time passes only while the flush loop is suspended: in asyncio.wait with
\* neither task done, or after the coroutine has ended.
WriterWaits ==
    \/ wpc = "dead"
    \/ wpc = "collect" /\ batch_queue = <<>> /\ ~deadline_done(deadline, now)

WriterTick ==
    /\ ticks < MaxTicks
    /\ WriterWaits
    /\ ticks' = ticks + 1
    /\ now' = now + batch_timeout \div 2
    /\ UNCHANGED fetchers
    /\ UNCHANGED fetchVars
    /\ UNCHANGED pollVars
    /\ UNCHANGED writerVars
    /\ UNCHANGED matrixVars
    /\ UNCHANGED signalVars
    /\ UNCHANGED feedVars

InitWriterRun ==
    /\ now = Clock(9, 0, 0)
    /\ fetchers = <<>>
    /\ ticks = 0
    /\ InitFetchers
    /\ InitPollIdle
    /\ batch_size \in BatchSizes
    /\ InitWriter
    /\ InitMatrixBuilder
    /\ InitSignalIdle
    /\ InitFeedIdle

NextWriter ==
    \/ SaveCandleData
    \/ SaveOptionMatrices
    \/ WriterTop
    \/ CollectGet
    \/ CollectTimeout
    \/ Flush
    \/ WriterTick

SpecWriter == InitWriterRun /\ [][NextWriter]_vars

---------------------------------------------------------------------------
\* Properties of the batch writer, checked under SpecWriter.

\* C14: the flush loop hands a batch to _write_batch as soon as batch_size
\* records have been collected, whether or not the timeout has run out, and
\* hands over whatever it has collected no later than batch_timeout after the
\* first record of the batch was taken; no collected record waits longer.
C14_FlushBySizeOrTimeout ==
    /\ [](batch # <<>> => now - firstAt <= batch_timeout)
    /\ [](flushed.batch # <<>> => flushed.at - flushed.first <= batch_timeout)
    /\ [][(batch' # batch /\ Len(batch') = batch_size) => wpc' = "flush"]_vars
    /\ [][wpc = "flush" => now' = now]_vars
    /\ [][(wpc = "flush" /\ batch # <<>> /\ wpc' # wpc) =>
             /\ flushed'.batch = batch
             /\ flushed'.at = now]_vars

C14_Witness ==
    /\ batch_size = 2
    /\ Len(flushed.batch) = 1
    /\ ~flushed.raised
    /\ flushed.at = Clock(9, 0, 0) + batch_timeout \div 2
    /\ accepted.records = 1
    /\ wpc = "collect"
    /\ now = Clock(9, 0, 0) + batch_timeout + batch_timeout \div 2

\* C15: a persistence failure while a batch is written is logged and does not
\* stop the batch writer: the flush loop goes back to collecting, so that
\* records enqueued afterwards are still flushed.
C15_WriteFailureSurvived ==
    /\ [][(wpc = "flush" /\ batch # <<>> /\ flushed'.raised) =>
             /\ errorsLogged' > errorsLogged
             /\ wpc' = "top"]_vars
    /\ [](wpc # "dead")

InsertsOf(f) == SelectSeq(f.ops, LAMBDA o : o.op = "insert")

RECURSIVE RowCount(_)
RowCount(ops) == IF ops = <<>> THEN 0 ELSE Len(Head(ops).rows) + RowCount(Tail(ops))

\* C16: _write_batch writes every derivative candle record to the table
\* futures_<first three characters of its symbol> and every equity candle
\* record to stocks_1m, each candle record of the batch to exactly one table.
C16_RoutedByInstrumentClass ==
    /\ \A i \in 1..Len(InsertsOf(flushed)) :
          LET o == InsertsOf(flushed)[i] IN
          \A j \in 1..Len(o.rows) :
             /\ o.rows[j].type = "d_candle" => o.table = FuturesTable(o.rows[j].symbol)
             /\ o.rows[j].type = "s_candle" => o.table = StocksTable
    /\ ~flushed.raised => RowCount(InsertsOf(flushed)) = Len(flushed.batch)

C18_CreateOncePerTable ==
    /\ \A i, j \in 1..Len(createLog) : i # j => createLog[i].table # createLog[j].table
    /\ \A t \in created_tables :
          \E i \in 1..Len(createLog) : createLog[i].table = t /\ createLog[i].ok

\* C18 as amended: create_dynamic_table is invoked for a table only while the
\* table is not in the cache; the table enters the cache exactly when an
\* invocation for it has succeeded, after which it is never invoked for that
\* table again; an invocation that failed leaves the table out of the cache
\* and the next use of the table invokes it again.
C18_CreateUntilCached ==
    /\ [](/\ \A i, j \in 1..Len(createLog) :
               (i < j /\ createLog[i].table = createLog[j].table) => ~createLog[i].ok
          /\ created_tables = {createLog[i].table :
                                  i \in {k \in 1..Len(createLog) : createLog[k].ok}})
    /\ [][\A i \in (Len(createLog) + 1)..Len(createLog') :
             createLog'[i].table \notin created_tables]_vars
    /\ [][(accepted'.matrices # accepted.matrices /\
           \A u \in Underlyings : OptionMatricesTable(u) \notin created_tables)
             => Len(createLog') = Len(createLog) + 1]_vars

C18_Witness ==
    /\ Len(createLog) = 3
    /\ createLog[1].table = createLog[2].table
    /\ ~createLog[1].ok
    /\ createLog[2].ok
    /\ createLog[3] = [table |-> FuturesTable(KOSPI200_Sep), ok |-> TRUE]
    /\ Len(flushed.batch) = 2
    /\ Len(InsertsOf(flushed)) = 2
    /\ accepted.matrices = 2

---------------------------------------------------------------------------
\* SpecMatrix: snapshots of the option board fed to OptionMatrixProcessor.update.
Strikes == 1..MaxStrike

\* the vendor's atm_cls_name of a strike, given the at-the-money strike: a call
\* is in the money below it, a put above it
ClassOf(side, strike, atm) ==
    IF strike = atm THEN "ATM"
    ELSE IF (side = "C") = (strike < atm) THEN "ITM" ELSE "OTM"

\* OptionData of one quote; its metric values tell side and strike apart,
\* volume and open interest are zero
OptionData(side, strike, atm) ==
    LET base == ((IF side = "C" THEN 100 ELSE 200) + strike) * 10 IN
    [atm_class |-> ClassOf(side, strike, atm), strike_price |-> strike,
     price |-> base + 1, iv |-> base + 2, delta |-> base + 3, gamma |-> base + 4,
     vega |-> base + 5, theta |-> base + 6, rho |-> base + 7,
     volume |-> 0, open_interest |-> 0]

RECURSIVE Board(_, _, _)
Board(side, S, atm) ==
    IF S = {} THEN <<>>
    ELSE LET lo == CHOOSE x \in S : \A y \in S : x <= y
         IN <<OptionData(side, lo, atm)>> \o Board(side, S \ {lo}, atm)

\* the snapshots one board can produce: the board lists a call and a put at
\* every listed strike, the at-the-money strike moves with the underlying,
\* and either list of a response may be empty
Snapshots(timestamp) ==
    {[timestamp |-> timestamp, calls |-> Board("C", Sc, atm), puts |-> Board("P", Sp, atm)] :
        atm \in Strikes, Sc \in {listed, {}}, Sp \in {listed, {}}}

InitMatrix ==
    /\ now = Clock(9, 0, 0)
    /\ fetchers = <<>>
    /\ ticks = 0
    /\ InitFetchers
    /\ InitPollIdle
    /\ batch_size = 1
    /\ InitWriter
    /\ num_strikes \in 1..MaxNumStrikes
    /\ matrices = create_matrices(TrackedMetrics, num_strikes)
    /\ chain = NoChain
    /\ updates = 0
    /\ listed \in SUBSET Strikes \ {{}}
    /\ InitSignalIdle
    /\ InitFeedIdle

Update ==
    /\ updates < MaxUpdates
    /\ \E chain_data \in Snapshots(updates + 1) :
          /\ matrices' = update(matrices, chain_data, num_strikes)
          /\ chain' = chain_data
    /\ updates' = updates + 1
    /\ UNCHANGED <<num_strikes, listed>>
    /\ UNCHANGED <<now, fetchers, ticks>>
    /\ UNCHANGED fetchVars
    /\ UNCHANGED pollVars
    /\ UNCHANGED writerVars
    /\ UNCHANGED signalVars
    /\ UNCHANGED feedVars

\* update called again with the snapshot it was last called with
Replay ==
    /\ updates < MaxUpdates
    /\ chain # NoChain
    /\ matrices' = update(matrices, chain, num_strikes)
    /\ updates' = updates + 1
    /\ UNCHANGED <<num_strikes, listed, chain>>
    /\ UNCHANGED <<now, fetchers, ticks>>
    /\ UNCHANGED fetchVars
    /\ UNCHANGED pollVars
    /\ UNCHANGED writerVars
    /\ UNCHANGED signalVars
    /\ UNCHANGED feedVars

NextMatrix == Update \/ Replay

SpecMatrix == InitMatrix /\ [][NextMatrix]_vars

---------------------------------------------------------------------------
\* Properties of the matrix builder, checked under SpecMatrix.

\* the latest update call added a row
RowAdded ==
    /\ chain # NoChain
    /\ \A i \in 1..Len(TrackedMetrics) :
          matrices[TrackedMetrics[i]].last.name = chain.timestamp

SideOf(side) == IF side = "C" THEN chain.calls ELSE chain.puts

AtmStrike(side) == WithClass(SideOf(side), "ATM")[1].strike_price

Distance(a, b) == IF a < b THEN b - a ELSE a - b

\* the quotes of one class on one side that are the k-th nearest to the
\* at-the-money strike
KthNearest(side, cls, k) ==
    {q \in {WithClass(SideOf(side), cls)[i] : i \in 1..Len(WithClass(SideOf(side), cls))} :
        Cardinality({p \in {WithClass(SideOf(side), cls)[i] :
                                i \in 1..Len(WithClass(SideOf(side), cls))} :
                        Distance(p.strike_price, AtmStrike(side))
                            < Distance(q.strike_price, AtmStrike(side))}) = k - 1}

Cell(metric, side, cls, k) == matrices[metric].last.cells[Column(side, cls, k)]

\* the metric types save_option_matrices stores
StoredMetrics ==
    <<"iv", "delta", "gamma", "vega", "theta", "rho", "price", "volume", "open_interest">>

\* C39: after a successful update of the matrix builder used by the
\* pipeline's DataProcessor, a row keyed by the snapshot timestamp exists for
\* each of the nine metrics iv, delta, gamma, vega, theta, rho, price, volume
\* and open_interest.
C39_NineMetricRows ==
    RowAdded =>
        \A i \in 1..Len(StoredMetrics) :
            /\ StoredMetrics[i] \in DOMAIN matrices
            /\ matrices[StoredMetrics[i]].rows >= 1
            /\ matrices[StoredMetrics[i]].last.name = chain.timestamp

\* C19: after an update that added a row, for each side and each k up to
\* num_strikes, column ITMk holds the metric value of the k-th nearest
\* in-the-money strike to the at-the-money strike and column OTMk that of the
\* k-th nearest out-of-the-money strike; with more than num_strikes quotes of
\* a class the nearest num_strikes are the ones kept.
C19_NearestFirst ==
    RowAdded =>
        \A i \in 1..Len(TrackedMetrics) : \A side \in {"C", "P"} :
        \A cls \in {"ITM", "OTM"} : \A k \in 1..num_strikes :
            \A q \in KthNearest(side, cls, k) :
                Cell(TrackedMetrics[i], side, cls, k) = Attr(q, TrackedMetrics[i])

\* C20: every metric matrix keeps exactly the 2 x (2 x num_strikes + 1)
\* columns generated at construction; in a new row the offset columns beyond
\* the quotes a side has are null, not zero; and a cell that is set holds the
\* value of the quote of its own side, class and offset.
C20_FixedColumns ==
    \A i \in 1..Len(TrackedMetrics) :
        LET m == TrackedMetrics[i] IN
        /\ matrices[m].columns = generate_columns(num_strikes)
        /\ Len(matrices[m].columns) = 2 * (2 * num_strikes + 1)
        /\ RowAdded =>
              \A side \in {"C", "P"} : \A cls \in {"ITM", "OTM"} :
              \A k \in 1..num_strikes :
                 /\ k > Len(WithClass(SideOf(side), cls)) => Cell(m, side, cls, k) = NaN
                 /\ Cell(m, side, cls, k) # NaN =>
                       \E q \in KthNearest(side, cls, k) :
                          Cell(m, side, cls, k) = Attr(q, m)

\* update returns before building a row
Skips(c) ==
    \/ c.calls = <<>> /\ c.puts = <<>>
    \/ WithClass(c.calls, "ATM") = <<>>
    \/ WithClass(c.puts, "ATM") = <<>>

\* C21: an update call whose snapshot has both lists empty, or a side with no
\* quote classified ATM, leaves every metric matrix as it was: no row is
\* added and get_current_matrices answers as before.
C21_SkipLeavesUnchanged ==
    [][(updates' = updates + 1 /\ Skips(chain'))
         => /\ matrices' = matrices
            /\ get_current_matrices(matrices') = get_current_matrices(matrices)]_vars

\* a snapshot with quotes but a side without ATM was skipped by a builder
\* that already holds a row
C21_Witness ==
    /\ updates = 2
    /\ Skips(chain)
    /\ chain.calls # <<>> \/ chain.puts # <<>>
    /\ \A i \in 1..Len(TrackedMetrics) : matrices[TrackedMetrics[i]].rows = 1

\* C22: an update call that replays the snapshot of the call before it leaves
\* get_current_matrices exactly as after the first call: the same value under
\* the same metric, side and offset.
C22_ReplayIdempotent ==
    [][(updates' = updates + 1 /\ chain # NoChain /\ chain' = chain)
         => get_current_matrices(matrices') = get_current_matrices(matrices)]_vars

\* a snapshot with in- and out-of-the-money quotes was applied twice
C22_Witness ==
    /\ updates = 2
    /\ \A i \in 1..Len(TrackedMetrics) :
          /\ matrices[TrackedMetrics[i]].rows = 2
          /\ matrices[TrackedMetrics[i]].last.name = 1
    /\ chain.timestamp = 1
    /\ WithClass(chain.calls, "ITM") # <<>>
    /\ WithClass(chain.calls, "OTM") # <<>>

---------------------------------------------------------------------------
\* SpecSignal: bars are stored for the strategy's symbol, the clock advances,
\* and get_latest_signal and Dolpha1Strategy._check_signal are called at any time.
MaxShort == 1       \* bars the stored history may be short of MinBars
MaxAmp == 1         \* largest move from open of the earlier days, in price units
MaxMove == 3        \* largest move from open of a stored bar, in price units
MaxArrivals == 1    \* bars stored in a run

BasePrice == 100
LotVolume == 100

Bar(o, c, v) == [open |-> o, high |-> Max2(o, c), low |-> Min2(o, c), close |-> c, volume |-> v]

\* n bars from 08:46 on, all opening at BasePrice and closing at close
Session(n, close) ==
    [m \in SessionOpenMinute..(SessionOpenMinute + n - 1) |-> Bar(BasePrice, close, LotVolume)]

\* days of bars; the earlier days move by up to MaxAmp, the latest day stands
\* at level and may be short of bars
History(days, n, short, amp, level) ==
    [d \in 1..days |->
        [date |-> d,
         bars |-> IF d < days THEN Session(n, BasePrice + ((amp + d) % (MaxAmp + 1)))
                  ELSE Session(n - short, level)]]

\* the days a bar needs behind it for its sigma_open to be defined
FullDays == min_periods(DefaultGenerator) + 1

Histories ==
    {History(FullDays, MinBars \div FullDays, short, amp, level) :
        short \in 0..MaxShort, amp \in 0..MaxAmp,
        level \in {BasePrice, BasePrice + 2 * MaxMove}}
    \cup
    {History(FullDays - 1, MinBars \div (FullDays - 1) + 1, 0, amp, BasePrice) :
        amp \in 0..MaxAmp}

Closes == {BasePrice - MaxMove, BasePrice, BasePrice + MaxMove}

ObserveIntervals == {2, 5}

Generators ==
    {[rolling_move |-> DefaultGenerator.rolling_move,
      band_multiplier |-> DefaultGenerator.band_multiplier,
      use_vwap |-> v, observe_interval_minutes |-> i] :
        v \in BOOLEAN, i \in ObserveIntervals}

\* when the calls of a run are made: the minute before the session opens for
\* _check_signal, its first minute and the minute after
CallTimes == {Clock(8, 44, 0), Clock(8, 45, 0), Clock(8, 46, 0)}

InitSignal ==
    /\ now \in CallTimes
    /\ fetchers = <<>>
    /\ ticks = 0
    /\ InitFetchers
    /\ InitPollIdle
    /\ batch_size = 1
    /\ InitWriter
    /\ InitMatrixBuilder
    /\ recent_data \in Histories
    /\ gen \in Generators
    /\ signal = NoSignal
    /\ signalRows = <<>>
    /\ arrivals = <<>>
    /\ checked = None
    /\ InitFeedIdle

LastDay(s) == s[Len(s)]

\* the (timestamp, symbol) upsert of DataFeeder.save_data
Upsert(s, d, m, bar) ==
    IF d > Len(s)
    THEN Append(s, [date |-> d, bars |-> (m :> bar)])
    ELSE [s EXCEPT ![d].bars = (m :> bar) @@ @]

\* DataFeeder.save_data: the latest bar again with another close, the bar of
\* the next minute, or the first bar of the next day
SaveData ==
    /\ Len(arrivals) < MaxArrivals
    /\ recent_data # <<>>
    /\ \E c \in Closes, kind \in {"revised", "new", "new day"} :
          LET d == Len(recent_data)
              m == LastMinute(LastDay(recent_data))
              old == LastDay(recent_data).bars[m]
          IN /\ recent_data' =
                   CASE kind = "revised" ->
                           Upsert(recent_data, d, m, Bar(old.open, c, old.volume))
                     [] kind = "new" ->
                           Upsert(recent_data, d, m + 1, Bar(BasePrice, c, LotVolume))
                     [] kind = "new day" ->
                           Upsert(recent_data, d + 1, SessionOpenMinute,
                                  Bar(BasePrice, c, LotVolume))
             /\ arrivals' = Append(arrivals, kind)
    /\ UNCHANGED <<gen, signal, signalRows, checked>>
    /\ UNCHANGED <<now, fetchers, ticks>>
    /\ UNCHANGED fetchVars
    /\ UNCHANGED pollVars
    /\ UNCHANGED writerVars
    /\ UNCHANGED matrixVars
    /\ UNCHANGED feedVars

\* SignalGenerator.get_latest_signal called on the stored bars
GetLatestSignal ==
    /\ signal' = [at |-> now, by |-> "get_latest_signal", bars |-> NumBars(recent_data),
                  result |-> get_latest_signal(recent_data, gen, now)]
    /\ UNCHANGED <<recent_data, gen, signalRows, arrivals, checked>>
    /\ UNCHANGED <<now, fetchers, ticks>>
    /\ UNCHANGED fetchVars
    /\ UNCHANGED pollVars
    /\ UNCHANGED writerVars
    /\ UNCHANGED matrixVars
    /\ UNCHANGED feedVars

\* Dolpha1Strategy._check_signal; the table is read and the row is written
\* without a storage error
CheckSignal ==
    /\ ~(HHMM(now) < 845 \/ HHMM(now) >= 1547)
    /\ checked' = NumBars(recent_data)
    /\ IF NumBars(recent_data) >= MinBars
       THEN LET signal_result == get_latest_signal(recent_data, gen, now)
                latest_row == <<LastDay(recent_data).date, LastMinute(LastDay(recent_data))>>
            IN /\ signal' = [at |-> now, by |-> "_check_signal",
                             bars |-> NumBars(recent_data), result |-> signal_result]
               /\ signalRows' =
                     IF ~startswith_insufficient_data(signal_result.reason)
                     THEN (latest_row :> signal_result) @@ signalRows
                     ELSE signalRows
       ELSE UNCHANGED <<signal, signalRows>>
    /\ UNCHANGED <<recent_data, gen, arrivals>>
    /\ UNCHANGED <<now, fetchers, ticks>>
    /\ UNCHANGED fetchVars
    /\ UNCHANGED pollVars
    /\ UNCHANGED writerVars
    /\ UNCHANGED matrixVars
    /\ UNCHANGED feedVars

NextSignal == SaveData \/ GetLatestSignal \/ CheckSignal

SpecSignal == InitSignal /\ [][NextSignal]_vars

---------------------------------------------------------------------------
\* Properties of the signal generator, checked under SpecSignal.

Called == signal.by # "none"

\* the minute of the call is a multiple of the observe interval
AtObserveBoundary ==
    ((TimeOfDay(signal.at) \div Minute) % 60) % gen.observe_interval_minutes = 0

\* C23: whatever get_latest_signal was given, the trade_signal it returned is
\* non-zero only when the minute of the call is a multiple of the observe
\* interval; at such a minute it equals monitor_signal, at any other minute it
\* is 0 even if monitor_signal is not.
C23_TradeOnlyAtObserve ==
    Called =>
        /\ signal.result.trade_signal # 0 => AtObserveBoundary
        /\ AtObserveBoundary => signal.result.trade_signal = signal.result.monitor_signal
        /\ ~AtObserveBoundary => signal.result.trade_signal = 0

\* a band cross was seen away from the observe boundary
C23_Witness ==
    /\ Called
    /\ ~AtObserveBoundary
    /\ signal.result.monitor_signal # 0

BandsDefined == Called /\ signal.result.ub # None

CrossedUp ==
    /\ signal.result.current_price * Scale > signal.result.ub
    /\ ~gen.use_vwap \/ AboveVwap(signal.result.current_price, signal.result.vwap)

CrossedDown ==
    /\ signal.result.current_price * Scale < signal.result.lb
    /\ ~gen.use_vwap \/ BelowVwap(signal.result.current_price, signal.result.vwap)

\* C24: for the latest bar with both bands defined, monitor_signal is +1 with
\* reason band_cross_up exactly when close > upper band and (VWAP confirmation
\* is off or close > VWAP), -1 with reason band_cross_down exactly when close <
\* lower band and (VWAP confirmation is off or close < VWAP), and otherwise 0
\* with reason none; it is always one of -1, 0, 1.
C24_Classification ==
    BandsDefined =>
        /\ signal.result.monitor_signal \in {-1, 0, 1}
        /\ (signal.result.monitor_signal = 1) <=> CrossedUp
        /\ (signal.result.monitor_signal = -1) <=> CrossedDown
        /\ signal.result.reason =
              CASE signal.result.monitor_signal = 1 -> <<"band_cross_up">>
                [] signal.result.monitor_signal = -1 -> <<"band_cross_down">>
                [] OTHER -> <<"none">>

\* with VWAP confirmation on, a close above the upper band but not above VWAP
C24_Witness ==
    /\ BandsDefined
    /\ gen.use_vwap
    /\ signal.result.current_price * Scale > signal.result.ub
    /\ ~AboveVwap(signal.result.current_price, signal.result.vwap)

\* C25: get_latest_signal on fewer than 100 bars returns reason
\* insufficient_data, both signals 0 and bands and price null, and
\* Dolpha1Strategy stores no signal row while the series is that short.
C25_InsufficientData ==
    /\ (signal.by = "get_latest_signal" /\ signal.bars < MinBars) =>
          /\ signal.result.reason = <<"insufficient_data">>
          /\ signal.result.monitor_signal = 0
          /\ signal.result.trade_signal = 0
          /\ signal.result.ub = None
          /\ signal.result.lb = None
          /\ signal.result.current_price = None
          /\ DOMAIN signal.result = {"monitor_signal", "trade_signal", "reason", "ub", "lb",
                                     "current_price", "is_observe_time"}
    /\ NumBars(recent_data) < MinBars => signalRows = <<>>

\* both the strategy's check and a direct call have seen a series one bar short
C25_Witness ==
    /\ signal.by = "get_latest_signal"
    /\ signal.bars = MinBars - 1
    /\ checked = MinBars - 1

\* two series that are the same except for the close, high and low of the latest bar
SameButLatestMove(s1, s2) ==
    /\ s1 # <<>>
    /\ s1 # s2
    /\ Len(s1) = Len(s2)
    /\ \A d \in 1..(Len(s1) - 1) : s1[d] = s2[d]
    /\ LastDay(s1).date = LastDay(s2).date
    /\ Minutes(LastDay(s1)) = Minutes(LastDay(s2))
    /\ LET latest == LastMinute(LastDay(s1))
       IN /\ LastDay(s1).bars[latest].open = LastDay(s2).bars[latest].open
          /\ LastDay(s1).bars[latest].volume = LastDay(s2).bars[latest].volume
          /\ \A m \in Minutes(LastDay(s1)) \ {latest} :
                LastDay(s1).bars[m] = LastDay(s2).bars[m]

Bands(r) == IF r.ub = None THEN <<None, None, None>> ELSE <<r.sigma_open, r.ub, r.lb>>

\* C26: when the stored series changes only in the close, high and low of its
\* latest bar, get_latest_signal computes the same sigma_open, upper band and
\* lower band: the band a bar is tested against does not depend on that bar's
\* own move from open.
C26_SigmaLagged ==
    [][SameButLatestMove(recent_data, recent_data')
         => Bands(get_latest_signal(recent_data', gen, now))
              = Bands(get_latest_signal(recent_data, gen, now))]_vars

\* the latest bar was stored again with another close and then crossed its band
C26_Witness ==
    /\ arrivals = <<"revised">>
    /\ BandsDefined
    /\ signal.bars = NumBars(recent_data)
    /\ signal.result.current_price = LastDay(recent_data).bars[LastMinute(LastDay(recent_data))].close
    /\ signal.result.monitor_signal # 0
    /\ signal.result.sigma_open > 0

\* no row of the frame has both UB and LB
NoBandedRow(s, g) ==
    LET rows == Rows(s)
        sigma == calculate_sigma_open(s, g)
    IN \A i \in 1..Len(rows) :
          \/ UB(s, g, rows[i][1], sigma[i]) = NaN
          \/ LB(s, g, rows[i][1], sigma[i]) = NaN

\* df['timestamp'].dt.date.nunique()
UniqueDays(s) == Cardinality({s[d].date : d \in 1..Len(s)})

\* the key save_signal is given: timestamp of the last stored row
LatestRowKey(s) == <<LastDay(s).date, LastMinute(LastDay(s))>>

\* C37: when the series has at least 100 bars but no row with both bands
\* defined, get_latest_signal returns both signals 0 with reason
\* insufficient_data_days_<n>, n the number of distinct trading days in the
\* input; Dolpha1Strategy persists a signal row exactly when the reason does
\* not start with insufficient_data.
C37_InsufficientDays ==
    [][/\ (signal' # signal /\ NumBars(recent_data) >= MinBars /\ NoBandedRow(recent_data, gen))
            => /\ signal'.result.monitor_signal = 0
               /\ signal'.result.trade_signal = 0
               /\ signal'.result.reason = <<"insufficient_data", "days", UniqueDays(recent_data)>>
       /\ (signal' # signal /\ signal'.by = "_check_signal")
            => IF signal'.result.reason[1] = "insufficient_data"
               THEN signalRows' = signalRows
               ELSE /\ LatestRowKey(recent_data) \in DOMAIN signalRows'
                    /\ signalRows'[LatestRowKey(recent_data)] = signal'.result
       /\ signalRows' # signalRows
            => /\ signal'.by = "_check_signal"
               /\ signal'.result.reason[1] # "insufficient_data"]_vars

\* the strategy checked a series of 100 bars or more over too few days for a
\* band and stored nothing
C37_Witness ==
    /\ signal.by = "_check_signal"
    /\ signal.bars >= MinBars
    /\ Len(signal.result.reason) = 3
    /\ signal.result.reason[2] = "days"
    /\ signal.result.reason[3] = FullDays - 1
    /\ signalRows = <<>>

\* C38: for every row with both bands defined, given a non-negative band
\* multiplier and positive prices, upper band >= upper anchor >= lower anchor
\* >= lower band; hence the conditions for band_cross_up and band_cross_down
\* never both hold for the same bar.
C38_BandsOrdered ==
    /\ (enough_bars(recent_data) /\ gen.band_multiplier >= 0) =>
          LET rows == Rows(recent_data)
              sigma == calculate_sigma_open(recent_data, gen)
          IN \A d \in 1..Len(recent_data) :
                \A sg \in {sigma[i] : i \in {j \in 1..Len(rows) : rows[j][1] = d}} :
                   LET ub == UB(recent_data, gen, d, sg)
                       lb == LB(recent_data, gen, d, sg)
                   IN (ub # NaN /\ lb # NaN) =>
                         /\ ub >= ub_base(recent_data, d) * Scale
                         /\ ub_base(recent_data, d) >= lb_base(recent_data, d)
                         /\ lb_base(recent_data, d) * Scale >= lb
    /\ BandsDefined =>
          /\ signal.result.ub >= signal.result.lb
          /\ ~(/\ signal.result.current_price * Scale > signal.result.ub
               /\ signal.result.current_price * Scale < signal.result.lb)
          /\ ~(CrossedUp /\ CrossedDown)

\* a bar below a lower band that lies strictly under its anchor, the anchors
\* of the day apart
C38_Witness ==
    /\ BandsDefined
    /\ signal.bars = NumBars(recent_data)
    /\ signal.result.sigma_open > 0
    /\ ub_base(recent_data, Len(recent_data)) > lb_base(recent_data, Len(recent_data))
    /\ signal.result.lb < lb_base(recent_data, Len(recent_data)) * Scale
    /\ signal.result.current_price * Scale < signal.result.lb

---------------------------------------------------------------------------
\* SpecFeed: tasks calling KISDataFeed.start_feed of one feed.

start_feed_declines_Never(is_running) == FALSE

\* "if self._polling_manager.is_running: ... return"
start_feed_declines(is_running) == is_running

InitFeed ==
    /\ now = Clock(9, 0, 0)
    /\ fetchers = <<>>
    /\ ticks = 0
    /\ InitFetchers
    /\ InitPollIdle
    /\ batch_size = 1
    /\ InitWriter
    /\ InitMatrixBuilder
    /\ InitSignalIdle
    /\ InitFeedIdle

\* A call of start_feed up to its first suspension: it returns at once when
\* polling is running; otherwise it enters start_polling, which sets _running
\* before its first await, and stays suspended in the loop.
StartFeed(c) ==
    /\ feedCalls[c] # "polling"
    /\ IF start_feed_declines(running)
       THEN /\ feedCalls' = [feedCalls EXCEPT ![c] = "declined"]
            /\ UNCHANGED <<running, pc>>
       ELSE /\ feedCalls' = [feedCalls EXCEPT ![c] = "polling"]
            /\ running' = TRUE
            /\ pc' = "loop"
    /\ UNCHANGED <<passList, idx, results, attempt, cycles,
                   calls, succeeded, enqCycle, primaryMinutes, troubled, slowCalls>>
    /\ UNCHANGED <<now, fetchers, ticks>>
    /\ UNCHANGED fetchVars
    /\ UNCHANGED writerVars
    /\ UNCHANGED matrixVars
    /\ UNCHANGED signalVars

\* start_polling is left by an exception raised at one of its awaits:
\* KeyboardInterrupt is caught and start_feed returns, any other propagates;
\* either way "finally: self._polling_manager.stop()" runs.
PollingLeft(c) ==
    /\ feedCalls[c] = "polling"
    /\ \E how \in {"returned", "raised"} : feedCalls' = [feedCalls EXCEPT ![c] = how]
    /\ running' = FALSE
    /\ pc' = IF \E d \in Callers \ {c} : feedCalls[d] = "polling" THEN pc ELSE "idle"
    /\ UNCHANGED <<passList, idx, results, attempt, cycles,
                   calls, succeeded, enqCycle, primaryMinutes, troubled, slowCalls>>
    /\ UNCHANGED <<now, fetchers, ticks>>
    /\ UNCHANGED fetchVars
    /\ UNCHANGED writerVars
    /\ UNCHANGED matrixVars
    /\ UNCHANGED signalVars

NextFeed ==
    \/ \E c \in Callers : StartFeed(c)
    \/ \E c \in Callers : PollingLeft(c)

SpecFeed == InitFeed /\ [][NextFeed]_vars

\* the calls that own a polling loop
Pollers == {c \in Callers : feedCalls[c] = "polling"}

\* C36: at most one polling loop runs per KISDataFeed under any interleaving
\* of start_feed calls: a call made while polling is running returns at once
\* without starting a second loop and without stopping the running one, and
\* when the call that owns the loop returns, normally or by exception,
\* is_running is False.
C36_OnePollingLoop ==
    /\ [](Cardinality(Pollers) <= 1 /\ (running <=> Pollers # {}))
    /\ [][\A c \in Callers :
            feedCalls'[c] # feedCalls[c] =>
               /\ (running /\ feedCalls[c] # "polling")
                     => (feedCalls'[c] = "declined" /\ running' /\ Pollers' = Pollers)
               /\ feedCalls[c] = "polling"
                     => (feedCalls'[c] \in {"returned", "raised"} /\ ~running')]_vars

C36_Witness ==
    \E a, b, c \in Callers :
        /\ feedCalls[a] = "raised"
        /\ feedCalls[b] = "polling"
        /\ feedCalls[c] = "declined"
        /\ running

====
